---------------------------- MODULE Spec2Model ----------------------------
(***************************************************************************)
(* dj-cache-panel: the adapter/capability layer of cache_panel.py.         *)
(*                                                                         *)
(* Two logical cache instances, "A" and "B", of one backend type share one *)
(* physical store (the same LOCATION: one locmem dict, one database table, *)
(* one Redis database, one directory) and differ only in key prefix or key *)
(* version.  A caller invokes one adapter operation at a time through the  *)
(* gate (CachePanel.query / get_key / delete_key / edit_key / flush_cache);*)
(* the operation's result is held in `call` until the caller takes it      *)
(* (Return).  Strings are sequences of one-character strings.              *)
(*                                                                         *)
(* Spec takes each operation as one step.  ScanSpec follows the Redis      *)
(* adapters' cursor loop SCAN call by SCAN call, in `scan`.                *)
(***************************************************************************)
EXTENDS Integers, Sequences, FiniteSets, TLC

VARIABLES conf, store, call, scan, http, db

vars == <<conf, store, call, scan, http, db>>

---------------------------------------------------------------------------
(* Strings                                                                 *)

\* Code points of the characters used, for Python's and SQL's string order.
Ord(c) ==
    CASE c = "%" -> 37 [] c = "*" -> 42 [] c = "1" -> 49 [] c = "2" -> 50
      [] c = ":" -> 58 [] c = "?" -> 63 [] c = "[" -> 91 [] c = "]" -> 93
      [] c = "_" -> 95 [] c = "a" -> 97 [] c = "b" -> 98 [] c = "c" -> 99
      [] OTHER -> 122

RECURSIVE StrLess(_, _)
\* s < t for Python str (and for ORDER BY under a binary collation)
StrLess(s, t) ==
    IF t = <<>> THEN FALSE
    ELSE IF s = <<>> THEN TRUE
    ELSE IF Head(s) = Head(t) THEN StrLess(Tail(s), Tail(t))
    ELSE Ord(Head(s)) < Ord(Head(t))

StrLeq(s, t) == s = t \/ StrLess(s, t)

\* str.startswith
StartsWith(s, p) == Len(p) <= Len(s) /\ SubSeq(s, 1, Len(p)) = p

\* s[n:]
DropFirst(s, n) == SubSeq(s, n + 1, Len(s))

\* c in s
Contains(s, c) == \E i \in 1..Len(s) : s[i] = c

\* index of the first c in s at or after position i, 0 when there is none
RECURSIVE FindFrom(_, _, _)
FindFrom(s, c, i) ==
    IF i > Len(s) THEN 0
    ELSE IF s[i] = c THEN i
    ELSE FindFrom(s, c, i + 1)

\* str.split(":", 2): at most three parts, cut at the first two colons
SplitColon2(s) ==
    LET i == FindFrom(s, ":", 1)
    IN  IF i = 0 THEN <<s>>
        ELSE LET j == FindFrom(s, ":", i + 1)
             IN  IF j = 0
                 THEN <<SubSeq(s, 1, i - 1), DropFirst(s, i)>>
                 ELSE <<SubSeq(s, 1, i - 1), SubSeq(s, i + 1, j - 1),
                        DropFirst(s, j)>>

\* str.replace(old, new) for one-character old and new
ReplaceChar(s, old, new) == [i \in 1..Len(s) |-> IF s[i] = old THEN new ELSE s[i]]

\* list.sort() on strings: insertion into an ascending sequence
RECURSIVE InsertSorted(_, _)
InsertSorted(sorted, s) ==
    IF sorted = <<>> THEN <<s>>
    ELSE IF StrLess(s, Head(sorted)) THEN <<s>> \o sorted
    ELSE <<Head(sorted)>> \o InsertSorted(Tail(sorted), s)

RECURSIVE SortStrings(_)
SortStrings(seq) ==
    IF seq = <<>> THEN <<>>
    ELSE InsertSorted(SortStrings(SubSeq(seq, 1, Len(seq) - 1)), seq[Len(seq)])

\* seq[start:end] of Python, 0-based, with negative indexes counted from the end
PySlice(seq, start, end) ==
    LET n  == Len(seq)
        lo == IF start < 0 THEN (IF n + start < 0 THEN 0 ELSE n + start)
              ELSE (IF start > n THEN n ELSE start)
        hi == IF end < 0 THEN (IF n + end < 0 THEN 0 ELSE n + end)
              ELSE (IF end > n THEN n ELSE end)
    IN  IF lo >= hi THEN <<>> ELSE SubSeq(seq, lo + 1, hi)


---------------------------------------------------------------------------
(* Pattern matchers: fnmatch (Python), LIKE (SQL), MATCH of SCAN (Redis)   *)

RECURSIVE FnMatchAt(_, _, _, _)
\* fnmatch.fnmatch(name, pat), matching name[i..] against pat[j..]:
\* "*" any run, "?" one character, "[seq]" one character of seq; a "["
\* with no closing "]" is a literal "[" (fnmatch.translate).
FnMatchAt(s, i, p, j) ==
    IF j > Len(p) THEN i > Len(s)
    ELSE IF p[j] = "*" THEN \E k \in i..(Len(s) + 1) : FnMatchAt(s, k, p, j + 1)
    ELSE IF p[j] = "?" THEN i <= Len(s) /\ FnMatchAt(s, i + 1, p, j + 1)
    ELSE IF p[j] = "["
    THEN LET first == j + 1
             from  == IF first <= Len(p) /\ p[first] = "]" THEN first + 1 ELSE first
             close == FindFrom(p, "]", from)
         IN  IF close = 0
             THEN i <= Len(s) /\ s[i] = "[" /\ FnMatchAt(s, i + 1, p, j + 1)
             ELSE /\ i <= Len(s)
                  /\ \E m \in first..(close - 1) : p[m] = s[i]
                  /\ FnMatchAt(s, i + 1, p, close + 1)
    ELSE i <= Len(s) /\ s[i] = p[j] /\ FnMatchAt(s, i + 1, p, j + 1)

FnMatch(name, pat) == FnMatchAt(name, 1, pat, 1)

RECURSIVE SqlLikeAt(_, _, _, _)
\* s LIKE p: "%" any run, "_" one character, every other character itself
SqlLikeAt(s, i, p, j) ==
    IF j > Len(p) THEN i > Len(s)
    ELSE IF p[j] = "%" THEN \E k \in i..(Len(s) + 1) : SqlLikeAt(s, k, p, j + 1)
    ELSE IF p[j] = "_" THEN i <= Len(s) /\ SqlLikeAt(s, i + 1, p, j + 1)
    ELSE i <= Len(s) /\ s[i] = p[j] /\ SqlLikeAt(s, i + 1, p, j + 1)

SqlLike(s, p) == SqlLikeAt(s, 1, p, 1)

RECURSIVE RedisGlobAt(_, _, _, _)
\* The MATCH option of SCAN (Redis stringmatchlen): "*", "?", "[seq]"; a
\* "[" with no closing "]" makes a class of the rest of the pattern.
RedisGlobAt(s, i, p, j) ==
    IF j > Len(p) THEN i > Len(s)
    ELSE IF p[j] = "*" THEN \E k \in i..(Len(s) + 1) : RedisGlobAt(s, k, p, j + 1)
    ELSE IF p[j] = "?" THEN i <= Len(s) /\ RedisGlobAt(s, i + 1, p, j + 1)
    ELSE IF p[j] = "["
    THEN LET close == FindFrom(p, "]", j + 1)
             last  == IF close = 0 THEN Len(p) ELSE close - 1
             next  == IF close = 0 THEN Len(p) + 1 ELSE close + 1
         IN  /\ i <= Len(s)
             /\ \E m \in (j + 1)..last : p[m] = s[i]
             /\ RedisGlobAt(s, i + 1, p, next)
    ELSE i <= Len(s) /\ s[i] = p[j] /\ RedisGlobAt(s, i + 1, p, j + 1)

RedisGlob(s, p) == RedisGlobAt(s, 1, p, 1)

---------------------------------------------------------------------------
(* Adapters and capabilities                                               *)

Features == {"query", "get_key", "delete_key", "edit_key", "add_key", "flush_cache"}

Same(b) == [f \in Features |-> b]

\* Abilities that leave query on
NoQuery_with_query == [f \in Features |-> TRUE]

\* All but query
NoQuery == [f \in Features |-> f # "query"]

\* The adapter classes' ABILITIES
ABILITIES(panel) ==
    CASE panel = "CachePanel"             -> Same(FALSE)
      [] panel = "LocalMemoryCachePanel"  -> Same(TRUE)
      [] panel = "DatabaseCachePanel"     -> Same(TRUE)
      [] panel = "FileBasedCachePanel"    -> NoQuery
      [] panel = "DummyCachePanel"        -> Same(FALSE)
      [] panel = "GenericCachePanel"      -> [f \in Features |-> f \in {"get_key", "delete_key"}]
      [] panel = "MemcachedCachePanel"    -> NoQuery
      [] panel = "DjangoRedisCachePanel"  -> Same(TRUE)
      [] panel = "RedisCachePanel"        -> Same(TRUE)
      [] panel = "RedisClusterCachePanel" -> NoQuery

Panels == {"LocalMemoryCachePanel", "DatabaseCachePanel", "FileBasedCachePanel",
           "DummyCachePanel", "GenericCachePanel", "MemcachedCachePanel",
           "DjangoRedisCachePanel", "RedisCachePanel", "RedisClusterCachePanel"}

\* The adapters that implement _query themselves
Enumerable == {"LocalMemoryCachePanel", "DatabaseCachePanel",
               "DjangoRedisCachePanel", "RedisCachePanel"}

---------------------------------------------------------------------------
(* Configuration: settings.CACHES and DJ_CACHE_PANEL_SETTINGS              *)

\* Backend types that BACKEND_PANEL_EXTENSIONS binds to an adapter reference
\* of the operator: to a class that loads, to a module that cannot be
\* imported, to a class the module lacks, to ".Panel" (no module name), and
\* to a simple name that is no class of cache_panel.py
ExtensionBackends == {"ext_loaded", "ext_module", "ext_class", "ext_empty",
                      "ext_name"}

\* The backend types of settings.CACHES[name]["BACKEND"]; "custom" stands
\* for a backend class that BACKEND_PANEL_MAP does not name.
Backends == {"locmem", "db", "filebased", "dummy", "custom", "memcached",
             "django_redis", "redis", "redis_cluster"} \cup ExtensionBackends

\* The module cache_panel.py by its dotted path, and what its globals hold
ThisModule == <<"dj_cache_panel", "cache_panel">>

Globals == Panels \cup {"CachePanel"}

\* BACKEND_PANEL_MAP: the default map, and the bindings of
\* BACKEND_PANEL_EXTENSIONS (the cluster adapter, which no default entry
\* names, and the operator's references).  A reference is the sequence of
\* the names its dots separate.
BACKEND_PANEL_MAP ==
    [b \in Backends \ {"custom"} |->
        CASE b = "locmem"        -> <<"LocalMemoryCachePanel">>
          [] b = "redis"         -> <<"RedisCachePanel">>
          [] b = "django_redis"  -> <<"DjangoRedisCachePanel">>
          [] b = "memcached"     -> <<"MemcachedCachePanel">>
          [] b = "db"            -> <<"DatabaseCachePanel">>
          [] b = "filebased"     -> <<"FileBasedCachePanel">>
          [] b = "dummy"         -> <<"DummyCachePanel">>
          [] b = "redis_cluster" -> <<"RedisClusterCachePanel">>
          [] b = "ext_loaded"    -> ThisModule \o <<"MemcachedCachePanel">>
          [] b = "ext_module"    -> <<"nomodule", "Panel">>
          [] b = "ext_class"     -> ThisModule \o <<"Missing">>
          [] b = "ext_empty"     -> <<"", "Panel">>
          [] b = "ext_name"      -> <<"NoSuchPanel">>]

\* import_module(module_path) and getattr(module, class_name, None): the
\* class, or the ImportError that get_cache_panel raises in their place
ImportPanel(module_path, class_name) ==
    IF module_path = ThisModule /\ class_name \in Globals
    THEN [outcome |-> "ok", panel |-> class_name]
    ELSE [outcome |-> "ImportError", panel |-> "none"]

\* A dispatcher that hands out the base class for a backend without binding
ResolvePanel_falling_back_to_base(backend) ==
    LET generic == [outcome |-> "ok", panel |-> "GenericCachePanel"]
    IN  IF backend \notin DOMAIN BACKEND_PANEL_MAP
        THEN [outcome |-> "ok", panel |-> "CachePanel"]
        ELSE LET panel_class_name == BACKEND_PANEL_MAP[backend]
                 n == Len(panel_class_name)
             IN  IF n > 1
                 THEN ImportPanel(SubSeq(panel_class_name, 1, n - 1),
                                  panel_class_name[n])
                 ELSE IF panel_class_name[1] \in Globals
                 THEN [outcome |-> "ok", panel |-> panel_class_name[1]]
                 ELSE generic

\* get_cache_panel from "panel_class_name = BACKEND_PANEL_MAP.get(backend)"
\* on: a reference with a dot is imported, a simple name is looked up in
\* globals(), and the generic adapter is what is left
ResolvePanel(backend) ==
    LET generic == [outcome |-> "ok", panel |-> "GenericCachePanel"]
    IN  IF backend \notin DOMAIN BACKEND_PANEL_MAP THEN generic
        ELSE LET panel_class_name == BACKEND_PANEL_MAP[backend]
                 n == Len(panel_class_name)
             IN  IF n > 1
                 THEN ImportPanel(SubSeq(panel_class_name, 1, n - 1),
                                  panel_class_name[n])
                 ELSE IF panel_class_name[1] \in Globals
                 THEN [outcome |-> "ok", panel |-> panel_class_name[1]]
                 ELSE generic

\* The adapter class get_cache_panel returns for the backend ("none" when it
\* raises)
PanelClass(backend) == ResolvePanel(backend).panel

Instances == {"A", "B"}

\* The per-instance "abilities" overrides of DJ_CACHE_PANEL_SETTINGS["CACHES"]
\* that the configurations draw from: none, everything off, everything on,
\* one feature narrowed, one feature widened, and one that switches on a
\* name no class declares beside narrowing a declared one.
Overrides ==
    [none       |-> <<>>,
     allFalse   |-> Same(FALSE),
     allTrue    |-> Same(TRUE),
     noQuery    |-> [f \in {"query"} |-> FALSE],
     withEdit   |-> [f \in {"edit_key"} |-> TRUE],
     noAdd      |-> [f \in {"add_key"} |-> FALSE],
     withExport |-> [f \in {"export", "delete_key"} |-> f = "export"]]

\* cache_settings.get("abilities", {}): instance A carries the configured
\* override, instance B none
OverrideAbilities(c, inst) == IF inst = "A" THEN Overrides[c.override] ELSE <<>>

\* Abilities as the declared dict updated with the override, whatever it names
abilities_updated_with_override(c, inst) ==
    LET override_abilities == OverrideAbilities(c, inst)
        declared == ABILITIES(PanelClass(c.backend))
    IN  [feature \in DOMAIN declared \cup DOMAIN override_abilities |->
            IF feature \in DOMAIN override_abilities
            THEN override_abilities[feature]
            ELSE declared[feature]]

\* CachePanel.abilities
abilities(c, inst) ==
    LET override_abilities == OverrideAbilities(c, inst)
        declared == ABILITIES(PanelClass(c.backend))
    IN  [feature \in DOMAIN declared |->
            IF feature \in DOMAIN override_abilities
            THEN override_abilities[feature]
            ELSE declared[feature]]

\* CachePanel.is_feature_supported: abilities.get(feature, False)
is_feature_supported(c, inst, feature) ==
    LET a == abilities(c, inst)
    IN  IF feature \in DOMAIN a THEN a[feature] ELSE FALSE

\* KEY_PREFIX of an instance: B has A's prefix when it differs by VERSION,
\* and a prefix of its own otherwise ("b" beside an A without prefix, none
\* beside an A with one)
key_prefix(c, inst) ==
    IF inst = "A" \/ c.other = "version" THEN c.prefix
    ELSE IF c.prefix = <<>> THEN <<"b">> ELSE <<>>

\* VERSION of an instance, as str(version)
version(c, inst) ==
    IF inst = "B" /\ c.other = "version" THEN <<"2">> ELSE <<"1">>

\* cache.make_key(key): Django's default_key_func, "%s:%s:%s" % (key_prefix,
\* version, key)
make_key(c, inst, key) ==
    key_prefix(c, inst) \o <<":">> \o version(c, inst) \o <<":">> \o key

---------------------------------------------------------------------------
(* The backend handle (caches[cache_name]): get / set / delete / clear     *)
(* over the physical store shared by the instances.  store maps each       *)
(* physical key held to its entry [value, ttl]; ttl is "never" (no         *)
(* expiry), "timed" (expiry pending) or "expired" (expiry passed, entry    *)
(* still held).                                                            *)

\* Python's None, as a stored value and as the value of a missing key
None == "None"

\* The timeout argument, as text: left out (timeout=None), 0, or a positive
\* number of seconds
NoTimeout == "None"

Timeouts == {NoTimeout, "0", "60"}

\* Backends that keep an expired entry until a read or delete removes it
\* (locmem's dict, the database table, the cache files); the servers
\* (Redis, Memcached) drop an entry when it expires.
LazyExpiry == {"locmem", "db", "filebased", "custom"}

Remove(st, pk) == [k \in DOMAIN st \ {pk} |-> st[k]]

Put(st, pk, entry) ==
    [k \in DOMAIN st \cup {pk} |-> IF k = pk THEN entry ELSE st[k]]

\* The key is held and has not expired
Live(st, pk) == pk \in DOMAIN st /\ st[pk].ttl # "expired"

\* cache.set(key, value, timeout=timeout) on physical key pk: timeout None
\* never expires, timeout 0 is expired at once (kept as an expired entry by
\* the lazy backends, deleted by the servers); the dummy backend stores
\* nothing.
\* cache.set's own default for timeout (django's DEFAULT_TIMEOUT): the
\* cache's TIMEOUT setting, 300 seconds when the settings leave it out as
\* the configurations here do; BackendSet stores it as an expiry pending
DEFAULT_TIMEOUT == "DEFAULT_TIMEOUT"

BackendSet(backend, st, pk, value, timeout) ==
    IF backend = "dummy" THEN st
    ELSE IF timeout = NoTimeout THEN Put(st, pk, [value |-> value, ttl |-> "never"])
    ELSE IF timeout = "0"
    THEN IF backend \in LazyExpiry
         THEN Put(st, pk, [value |-> value, ttl |-> "expired"])
         ELSE Remove(st, pk)
    ELSE Put(st, pk, [value |-> value, ttl |-> "timed"])

\* cache.get(key, default) on physical key pk: the value, or default when
\* the key is missing or expired, and the store afterwards (a lazy backend
\* deletes the expired entry it comes across)
BackendGet(backend, st, pk, default) ==
    IF backend = "dummy" \/ pk \notin DOMAIN st
    THEN [value |-> default, store |-> st]
    ELSE IF st[pk].ttl = "expired"
    THEN [value |-> default, store |-> Remove(st, pk)]
    ELSE [value |-> st[pk].value, store |-> st]

\* cache.delete(key) on physical key pk
BackendDelete(backend, st, pk) == IF backend = "dummy" THEN st ELSE Remove(st, pk)

\* cache.clear(): locmem clears the dict of its LOCATION, the database
\* backend deletes every row of the table, the Redis backends FLUSHDB,
\* Memcached flush_all, the file backend removes every cache file
BackendClear(backend, st) == IF backend = "dummy" THEN st ELSE <<>>

\* The live entries of one instance, by logical key
Contents(c, inst, st, keys) ==
    [k \in {x \in keys : Live(st, make_key(c, inst, x))} |->
        st[make_key(c, inst, k)].value]

---------------------------------------------------------------------------
(* Results.  Every operation yields one record: how it ended (outcome:     *)
(* "ok" or the exception raised), the store afterwards, the backend        *)
(* primitives it invoked in order (calls), and the fields of the returned  *)
(* dict (unused ones keep their defaults).                                 *)

NoResult ==
    [outcome |-> "none", store |-> <<>>, calls |-> <<>>,
     exists |-> FALSE, value |-> None, success |-> FALSE,
     keys |-> <<>>, redis_keys |-> <<>>, total_count |-> 0, error |-> FALSE,
     panel |-> "none"]

\* The operation raised exc before touching the backend
Raised(exc, st) == [NoResult EXCEPT !.outcome = exc, !.store = st]

\* The operation returned
Returned(st, calls) == [NoResult EXCEPT !.outcome = "ok", !.store = st, !.calls = calls]

Backend(c) == c.backend

---------------------------------------------------------------------------
(* CachePanel: the primitives and the gate                                 *)

\* The fresh object() that _get_key passes as the default
Sentinel == "sentinel"

\* _get_key deciding presence by the truthiness of the fetched value
_get_key_by_truthiness(c, inst, st, key) ==
    LET got    == BackendGet(Backend(c), st, make_key(c, inst, key), Sentinel)
        exists == got.value # Sentinel /\ got.value # None
    IN  [Returned(got.store, <<"get">>) EXCEPT
            !.exists = exists,
            !.value  = IF ~exists THEN None ELSE got.value]

\* CachePanel._get_key
_get_key(c, inst, st, key) ==
    LET got    == BackendGet(Backend(c), st, make_key(c, inst, key), Sentinel)
        exists == got.value # Sentinel
    IN  [Returned(got.store, <<"get">>) EXCEPT
            !.exists = exists,
            !.value  = IF ~exists THEN None ELSE got.value]

\* CachePanel.get_key
get_key(c, inst, st, key) ==
    IF ~is_feature_supported(c, inst, "get_key")
    THEN Raised("NotImplementedError", st)
    ELSE _get_key(c, inst, st, key)

\* _delete_key that reports success without deleting
_delete_key_without_delete(c, inst, st, key) ==
    [Returned(st, <<>>) EXCEPT !.success = TRUE]

\* _delete_key that reports whether there was a key to delete
_delete_key_reporting_found(c, inst, st, key) ==
    [Returned(BackendDelete(Backend(c), st, make_key(c, inst, key)), <<"delete">>)
        EXCEPT !.success = Live(st, make_key(c, inst, key))]

\* CachePanel._delete_key
_delete_key(c, inst, st, key) ==
    [Returned(BackendDelete(Backend(c), st, make_key(c, inst, key)), <<"delete">>)
        EXCEPT !.success = TRUE]

\* CachePanel.delete_key
delete_key(c, inst, st, key) ==
    IF ~is_feature_supported(c, inst, "delete_key")
    THEN Raised("NotImplementedError", st)
    ELSE _delete_key(c, inst, st, key)

\* _edit_key through cache.add: an existing key keeps its value
_edit_key_by_add(c, inst, st, key, value, timeout) ==
    [Returned(IF Live(st, make_key(c, inst, key)) THEN st
              ELSE BackendSet(Backend(c), st, make_key(c, inst, key), value, timeout),
              <<"add">>)
        EXCEPT !.success = TRUE]

\* CachePanel._edit_key
_edit_key(c, inst, st, key, value, timeout) ==
    [Returned(BackendSet(Backend(c), st, make_key(c, inst, key), value, timeout),
              <<"set">>)
        EXCEPT !.success = TRUE]

\* CachePanel.edit_key
edit_key(c, inst, st, key, value, timeout) ==
    IF ~is_feature_supported(c, inst, "edit_key")
    THEN Raised("NotImplementedError", st)
    ELSE _edit_key(c, inst, st, key, value, timeout)

\* _flush_cache that reports success without clearing
_flush_cache_without_clear(c, inst, st) ==
    [Returned(st, <<>>) EXCEPT !.success = TRUE]

\* CachePanel._flush_cache
_flush_cache(c, inst, st) ==
    [Returned(BackendClear(Backend(c), st), <<"clear">>) EXCEPT !.success = TRUE]

\* flush_cache without the capability check
flush_cache_ungated(c, inst, st) == _flush_cache(c, inst, st)

\* CachePanel.flush_cache
flush_cache(c, inst, st) ==
    IF ~is_feature_supported(c, inst, "flush_cache")
    THEN Raised("NotImplementedError", st)
    ELSE _flush_cache(c, inst, st)

---------------------------------------------------------------------------
(* Scan engines: the _query of each adapter                                *)

RECURSIVE SeqOfSet(_)
\* The elements of a finite set, in some order
SeqOfSet(S) ==
    IF S = {} THEN <<>>
    ELSE LET x == CHOOSE y \in S : TRUE
         IN  <<x>> \o SeqOfSet(S \ {x})

\* "if pattern and pattern != '*'": a pattern to filter by
IsFilter(pattern) == pattern # <<>> /\ pattern # <<"*">>

\* start_idx counted as if pages were numbered from 0
StartIdx_from_page_zero(page, per_page) == page * per_page

\* start_idx and end_idx of a page
StartIdx(page, per_page) == (page - 1) * per_page

EndIdx(page, per_page) == StartIdx(page, per_page) + per_page

\* CachePanel._query: self.cache.keys(pattern); no Django backend has a
\* keys method, so the attribute lookup fails
_query(c, inst, st, pattern, page, per_page) == Raised("AttributeError", st)

\* LocalMemoryCachePanel._query, the reversal of one internal key
LocMemUserKey(internal_key, prefix) ==
    LET parts == SplitColon2(internal_key)
    IN  IF Len(parts) >= 3
        THEN LET user_key == parts[3]
             IN  IF prefix # <<>> /\ StartsWith(user_key, prefix)
                 THEN DropFirst(user_key, Len(prefix))
                 ELSE user_key
        ELSE internal_key

\* LocalMemoryCachePanel._query
LocMemQuery(c, inst, st, pattern, page, per_page) ==
    LET prefix   == key_prefix(c, inst)
        internal_keys == SeqOfSet(DOMAIN st)
        Match(k) == FnMatch(k, pattern)
        all_keys == [i \in 1..Len(internal_keys) |->
                        LocMemUserKey(internal_keys[i], prefix)]
        matching_keys ==
            SortStrings(IF IsFilter(pattern)
                        THEN SelectSeq(all_keys, Match)
                        ELSE all_keys)
    IN  [Returned(st, <<"_cache.keys">>) EXCEPT
            !.keys = PySlice(matching_keys, StartIdx(page, per_page),
                             EndIdx(page, per_page)),
            !.total_count = Len(matching_keys)]

\* DatabaseCachePanel._wildcard_to_sql_like
_wildcard_to_sql_like(pattern) == ReplaceChar(ReplaceChar(pattern, "*", "%"), "?", "_")

\* DatabaseCachePanel._query, the reversal of one cache_key
DbUserKey(cache_key, prefix) ==
    IF StartsWith(cache_key, prefix)
    THEN LET key_without_prefix == DropFirst(cache_key, Len(prefix))
             parts == SplitColon2(key_without_prefix)
         IN  IF Len(parts) >= 3 THEN parts[3] ELSE key_without_prefix
    ELSE cache_key

\* ORDER BY cache_key LIMIT limit OFFSET offset for offset >= 0, and for
\* the negative offset that SQLite takes as 0
LimitOffset(rows, limit, offset) ==
    LET skip == IF offset < 0 THEN 0 ELSE offset
    IN  IF skip >= Len(rows) THEN <<>>
        ELSE SubSeq(rows, skip + 1,
                    IF skip + limit > Len(rows) THEN Len(rows) ELSE skip + limit)

\* The database vendors (connection.vendor) in use: PostgreSQL, where
\* expires is a timestamp, and SQLite, where Django stores it as text
Vendors == {"postgresql", "sqlite"}

\* expires_condition applied to a row.  "expires > to_timestamp(now)"
\* compares timestamps; SQLite's "expires > now" compares the text that
\* Django stores with a number, and SQLite orders every text value after
\* every number, so it is true of every row.
expires_condition(c, entry) ==
    IF c.vendor = "postgresql" THEN entry.ttl # "expired" ELSE TRUE

\* DatabaseCachePanel._query: COUNT(*) and the page, both over the rows
\* WHERE cache_key LIKE sql_pattern AND expires_condition.  PostgreSQL
\* rejects a negative OFFSET, and the error leaves _query, which has no try
DbQuery(c, inst, st, pattern, page, per_page) ==
    LET prefix == key_prefix(c, inst)
        sql_pattern == IF IsFilter(pattern)
                       THEN _wildcard_to_sql_like(make_key(c, inst, pattern))
                       ELSE <<"%">>
        rows == {pk \in DOMAIN st : SqlLike(pk, sql_pattern) /\ expires_condition(c, st[pk])}
        raw_keys == LimitOffset(SortStrings(SeqOfSet(rows)), per_page,
                                StartIdx(page, per_page))
    IN  IF c.vendor = "postgresql" /\ StartIdx(page, per_page) < 0
        THEN [Raised("DatabaseError", st) EXCEPT !.calls = <<"execute", "execute">>]
        ELSE [Returned(st, <<"execute", "execute">>) EXCEPT
                !.keys = [i \in 1..Len(raw_keys) |-> DbUserKey(raw_keys[i], prefix)],
                !.total_count = Cardinality(rows)]

---------------------------------------------------------------------------
(* The Redis server's SCAN and the cursor loops of the two Redis adapters  *)

\* The default of the scan_count parameter
DefaultScanCount == 100

RECURSIVE Chunks(_, _)
\* seq cut into runs of n elements (the last one shorter)
Chunks(seq, n) ==
    IF Len(seq) <= n THEN <<seq>>
    ELSE <<SubSeq(seq, 1, n)>> \o Chunks(DropFirst(seq, n), n)

Reverse(seq) == [i \in 1..Len(seq) |-> seq[Len(seq) + 1 - i]]

\* The orders in which a Redis server may walk its keyspace (it promises
\* none): ascending and descending physical key stand for all of them.
\* The other backends have no keyspace walk.
KeyspaceOrders(c, st) ==
    IF c.backend \in {"redis", "django_redis"}
    THEN LET asc == SortStrings(SeqOfSet(DOMAIN st))
         IN  {asc, Reverse(asc)}
    ELSE {<<>>}

\* connection.scan(cursor, match, count) against a keyspace walked in the
\* order `keyspace`: the server visits `count` keys per call and returns
\* those that match, with the cursor of the next call (0 after the last)
Scan(keyspace, cursor, match, count) ==
    LET batches == Chunks(keyspace, count)
        Matches(k) == RedisGlob(k, match)
    IN  [cursor |-> IF cursor + 1 >= Len(batches) THEN 0 ELSE cursor + 1,
         keys   |-> SelectSeq(batches[cursor + 1], Matches)]

\* What can go wrong with the server during a query: nothing, a failure
\* while the connection handle is obtained, a failure of the first or of the
\* second SCAN call
Faults == {"none", "connect", "scan1", "scan2"}

\* The number of the SCAN call that fails (0: none)
FaultAt(fault) == CASE fault = "scan1" -> 1 [] fault = "scan2" -> 2 [] OTHER -> 0

\* all_keys = [], cursor = 0 before the loop
NoKeys == [all_keys |-> <<>>, calls |-> <<>>, failed |-> FALSE]

RECURSIVE ScanLoop_retrying(_, _, _, _, _, _)
\* A loop that repeats a SCAN call that raised, once, before it gives up
ScanLoop_retrying(keyspace, cursor, match, count, acc, fault) ==
    IF Len(acc.calls) + 1 = FaultAt(fault)
    THEN [acc EXCEPT !.calls = @ \o <<"scan", "scan">>, !.failed = TRUE]
    ELSE LET reply == Scan(keyspace, cursor, match, count)
             next  == [acc EXCEPT !.all_keys = @ \o reply.keys,
                                  !.calls = Append(@, "scan")]
         IN  IF reply.cursor = 0 THEN next
             ELSE ScanLoop_retrying(keyspace, reply.cursor, match, count, next,
                                    fault)

RECURSIVE ScanLoop_keeping_the_last_batch(_, _, _, _, _, _)
\* A loop that assigns each batch to all_keys instead of extending it
ScanLoop_keeping_the_last_batch(keyspace, cursor, match, count, acc, fault) ==
    IF Len(acc.calls) + 1 = FaultAt(fault)
    THEN [acc EXCEPT !.calls = Append(@, "scan"), !.failed = TRUE]
    ELSE LET reply == Scan(keyspace, cursor, match, count)
             next  == [acc EXCEPT !.all_keys = reply.keys,
                                  !.calls = Append(@, "scan")]
         IN  IF reply.cursor = 0 THEN next
             ELSE ScanLoop_keeping_the_last_batch(keyspace, reply.cursor, match,
                                                  count, next, fault)

RECURSIVE ScanLoop(_, _, _, _, _, _)
\* "while True: cursor, keys = connection.scan(...); all_keys.extend(keys);
\* if cursor == 0: break": all_keys and the SCAN calls made, and whether
\* one of them raised
ScanLoop(keyspace, cursor, match, count, acc, fault) ==
    IF Len(acc.calls) + 1 = FaultAt(fault)
    THEN [acc EXCEPT !.calls = Append(@, "scan"), !.failed = TRUE]
    ELSE LET reply == Scan(keyspace, cursor, match, count)
             next  == [acc EXCEPT !.all_keys = @ \o reply.keys,
                                  !.calls = Append(@, "scan")]
         IN  IF reply.cursor = 0 THEN next
             ELSE ScanLoop(keyspace, reply.cursor, match, count, next, fault)

\* "except Exception as e": the empty result with an error
ErrorResult(st, calls) == [Returned(st, calls) EXCEPT !.error = TRUE]

\* decoded_keys.sort(key=lambda x: x["key"]): stable insertion by user key
RECURSIVE InsertByKey(_, _)
InsertByKey(sorted, d) ==
    IF sorted = <<>> THEN <<d>>
    ELSE IF StrLess(d.key, Head(sorted).key) THEN <<d>> \o sorted
    ELSE <<Head(sorted)>> \o InsertByKey(Tail(sorted), d)

RECURSIVE SortByKey(_)
SortByKey(seq) ==
    IF seq = <<>> THEN <<>>
    ELSE InsertByKey(SortByKey(SubSeq(seq, 1, Len(seq) - 1)), seq[Len(seq)])

\* The page of decoded_keys with total_count taken from the page
RedisPage_counting_the_page(st, calls, decoded_keys, page, per_page) ==
    LET sorted == SortByKey(decoded_keys)
        paginated_keys == PySlice(sorted, StartIdx(page, per_page),
                                  EndIdx(page, per_page))
    IN  [Returned(st, calls) EXCEPT
            !.keys = [i \in 1..Len(paginated_keys) |-> paginated_keys[i].key],
            !.redis_keys = [i \in 1..Len(paginated_keys) |->
                               paginated_keys[i].redis_key],
            !.total_count = Len(paginated_keys)]

\* The page of decoded_keys as a result
RedisPage(st, calls, decoded_keys, page, per_page) ==
    LET sorted == SortByKey(decoded_keys)
        paginated_keys == PySlice(sorted, StartIdx(page, per_page),
                                  EndIdx(page, per_page))
    IN  [Returned(st, calls) EXCEPT
            !.keys = [i \in 1..Len(paginated_keys) |-> paginated_keys[i].key],
            !.redis_keys = [i \in 1..Len(paginated_keys) |->
                               paginated_keys[i].redis_key],
            !.total_count = Len(sorted)]

\* DjangoRedisCachePanel._query, the reversal of one scanned key
DjangoRedisUserKey(prefixed_key, prefix) ==
    LET user_key == IF prefix # <<>> /\ StartsWith(prefixed_key, prefix)
                    THEN DropFirst(prefixed_key, Len(prefix))
                    ELSE prefixed_key
    IN  IF StartsWith(user_key, <<":">>)
        THEN LET parts == SplitColon2(user_key)
             IN  IF Len(parts) >= 3 THEN parts[3] ELSE user_key
        ELSE user_key

\* DjangoRedisCachePanel._query: the connection is obtained before the try
\* block, the SCAN loop runs inside it
DjangoRedisQuery(c, inst, st, keyspace, pattern, page, per_page, scan_count, fault) ==
    LET prefix == key_prefix(c, inst)
        redis_pattern  == IF IsFilter(pattern) THEN pattern ELSE <<"*">>
        prefix_pattern == make_key(c, inst, redis_pattern)
        scanned == ScanLoop(keyspace, 0, prefix_pattern, scan_count, NoKeys,
                            fault)
        decoded_keys ==
            [i \in 1..Len(scanned.all_keys) |->
                [key       |-> DjangoRedisUserKey(scanned.all_keys[i], prefix),
                 redis_key |-> scanned.all_keys[i]]]
    IN  IF fault = "connect" THEN Raised("ConnectionError", st)
        ELSE IF scanned.failed THEN ErrorResult(st, scanned.calls)
        ELSE RedisPage(st, scanned.calls, decoded_keys, page, per_page)

\* RedisCachePanel._query, the reversal of one scanned key
RedisUserKey(prefixed_key) ==
    IF StartsWith(prefixed_key, <<":">>)
    THEN LET parts == SplitColon2(prefixed_key)
         IN  IF Len(parts) >= 3 THEN parts[3]
             ELSE IF Len(parts) = 2 THEN parts[2]
             ELSE prefixed_key
    ELSE prefixed_key

\* RedisCachePanel._query, "Apply pattern matching if provided"
RedisKeep(user_key, pattern) ==
    IF IsFilter(pattern)
    THEN IF Contains(pattern, "*") \/ Contains(pattern, "?")
         THEN FnMatch(user_key, pattern)
         ELSE user_key = pattern
    ELSE TRUE

\* RedisCachePanel._query: obtaining the connection and the SCAN loop each
\* run inside a try block
RedisQuery(c, inst, st, keyspace, pattern, page, per_page, scan_count, fault) ==
    LET scanned == ScanLoop(keyspace, 0, <<"*">>, scan_count, NoKeys, fault)
        all ==
            [i \in 1..Len(scanned.all_keys) |->
                [key       |-> RedisUserKey(scanned.all_keys[i]),
                 redis_key |-> scanned.all_keys[i]]]
        Keep(d) == RedisKeep(d.key, pattern)
    IN  IF fault = "connect" THEN ErrorResult(st, <<>>)
        ELSE IF scanned.failed THEN ErrorResult(st, scanned.calls)
        ELSE RedisPage(st, scanned.calls, SelectSeq(all, Keep), page, per_page)

\* The _query that the adapter class of the instance defines or inherits
PanelQuery(c, inst, st, keyspace, pattern, page, per_page, scan_count, fault) ==
    LET panel == PanelClass(c.backend)
    IN  CASE panel = "LocalMemoryCachePanel" ->
                LocMemQuery(c, inst, st, pattern, page, per_page)
          [] panel = "DatabaseCachePanel" ->
                DbQuery(c, inst, st, pattern, page, per_page)
          [] panel = "DjangoRedisCachePanel" ->
                DjangoRedisQuery(c, inst, st, keyspace, pattern, page, per_page,
                                 scan_count, fault)
          [] panel = "RedisCachePanel" ->
                RedisQuery(c, inst, st, keyspace, pattern, page, per_page, scan_count,
                           fault)
          [] OTHER -> _query(c, inst, st, pattern, page, per_page)

\* CachePanel.query
query(c, inst, st, keyspace, pattern, page, per_page, scan_count, fault) ==
    IF ~is_feature_supported(c, inst, "query")
    THEN Raised("NotImplementedError", st)
    ELSE PanelQuery(c, inst, st, keyspace, pattern, page, per_page, scan_count,
                    fault)

---------------------------------------------------------------------------
(* Bounds and inputs                                                       *)

MaxPage == 2

MaxPerPage == 2

\* Logical keys
K_a_b == <<"a", "_", "b">>

K_a_colon_b == <<"a", ":", "b">>

\* The logical keys each instance's callers use: B's key is one of A's, so
\* that one logical key can be held under two prefixes or two versions, and
\* it is the smaller of A's, so that physical and logical order can differ
KeysOf(inst) == IF inst = "A" THEN {K_a_b, K_a_colon_b} ELSE {K_a_colon_b}

AllKeys == KeysOf("A") \cup KeysOf("B")

\* Stored values: None (falsy) and a string
ValuesOf(inst) == IF inst = "A" THEN {None, "v"} ELSE {"v"}

\* Timeouts in use: none, and 0 (an expiry that has already passed)
TimeoutsOf(inst) == IF inst = "A" THEN {NoTimeout, "0"} ELSE {NoTimeout}

\* Query patterns: every key, wildcards, exact keys, a key not stored, and
\* patterns with the characters "_" and "[" "]" and no wildcard
PatternsOf(inst) ==
    IF inst = "A"
    THEN {<<"*">>, <<"a", "_", "*">>, <<"a", "?", "b">>, <<"a", ":", "*">>,
          K_a_b, K_a_colon_b, <<"b">>, <<"[", "a", "]", "_", "b">>}
    ELSE {<<"*">>}

Pages == 1..MaxPage

PerPages == 1..MaxPerPage

\* scan_count: the default, and 1 (a batch per key) where the adapter scans
ScanCounts == {1, DefaultScanCount}

ScansWithCursor(c) == PanelClass(c.backend) \in {"DjangoRedisCachePanel", "RedisCachePanel"}

ScanCountsOf(c) == IF ScansWithCursor(c) THEN ScanCounts ELSE {DefaultScanCount}

\* Server failures happen to the adapters that talk to a Redis server; they
\* are injected into the calls for the first page at the largest page size
FaultsOf(c, page, per_page) ==
    IF ScansWithCursor(c) /\ page = 1 /\ per_page = MaxPerPage
    THEN Faults ELSE {"none"}

\* Key prefixes of instance A
Prefixes == {<<>>, <<"a">>}

EnumerableBackends == {b \in Backends : PanelClass(b) \in Enumerable}

\* One configuration: the backend type, A's key prefix, how B differs from
\* A, A's override, and the vendor of the database
Config(b, p, o, ov, v) ==
    [backend |-> b, prefix |-> p, other |-> o, override |-> ov, vendor |-> v]

\* The configurations: every enumerable adapter with each prefix and each
\* kind of neighbour (the relational one on each vendor); every other
\* adapter as declared; the file, dummy and generic adapters with every
\* feature switched on; every adapter with every feature switched off; one
\* narrowing and one widening of a single feature.
Configs ==
    {Config(b, p, o, "none", "postgresql") :
        b \in EnumerableBackends, p \in Prefixes, o \in {"prefix", "version"}}
    \cup
    {Config("db", p, o, "none", "sqlite") :
        p \in Prefixes, o \in {"prefix", "version"}}
    \cup
    {Config(b, <<>>, "prefix", "none", "postgresql") :
        b \in Backends \ EnumerableBackends}
    \cup
    {Config(b, <<>>, "prefix", "allTrue", "postgresql") :
        b \in {"filebased", "dummy", "custom"}}
    \cup
    {Config(b, <<>>, "prefix", "allFalse", "postgresql") :
        b \in Backends \ ExtensionBackends}
    \cup
    {Config("locmem", <<>>, "prefix", "noQuery", "postgresql"),
     Config("locmem", <<>>, "prefix", "noAdd", "postgresql"),
     Config("custom", <<>>, "prefix", "withEdit", "postgresql"),
     Config("custom", <<>>, "prefix", "withExport", "postgresql")}

---------------------------------------------------------------------------
(* The state machine                                                       *)

\* The names a caller may ask get_cache_panel for: the two instances, a
\* name that settings.CACHES holds with empty settings, a name it lacks
CacheNames == Instances \cup {"E", "X"}

\* settings.CACHES, each cache's settings a mapping from setting names
CACHES(c) ==
    [cache_name \in Instances \cup {"E"} |->
        IF cache_name \in Instances
        THEN [setting \in {"BACKEND"} |-> c.backend]
        ELSE [setting \in {} |-> ""]]

\* get_cache_panel(cache_name): "cache_config = settings.CACHES.get(
\* cache_name); if not cache_config: raise ValueError(...)" (None and the
\* empty mapping are both false), then the adapter class of the BACKEND
get_cache_panel(c, cache_name, st) ==
    IF cache_name \notin DOMAIN CACHES(c)
    THEN Raised("ValueError", st)
    ELSE LET cache_config == CACHES(c)[cache_name]
         IN  IF DOMAIN cache_config = {}
             THEN Raised("ValueError", st)
             ELSE LET resolved == ResolvePanel(cache_config["BACKEND"])
                  IN  IF resolved.outcome = "ok"
                      THEN [Returned(st, <<>>) EXCEPT !.panel = resolved.panel]
                      ELSE Raised(resolved.outcome, st)

\* A caller holds the adapter of the instance: get_cache_panel returned it
HasPanel(c, inst) == get_cache_panel(c, inst, <<>>).outcome = "ok"

\* The one backend call of each key operation
Primitive ==
    [get_key |-> "get", delete_key |-> "delete", edit_key |-> "set",
     flush_cache |-> "clear"]

\* A key operation whose backend call raises: past the gate, _get_key,
\* _delete_key, _edit_key and _flush_cache make the call outside any try
\* block, and the exception leaves the operation
BackendFails(c, inst, st, op) ==
    IF ~is_feature_supported(c, inst, op)
    THEN Raised("NotImplementedError", st)
    ELSE [Raised("ConnectionError", st) EXCEPT !.calls = <<Primitive[op]>>]

\* The backend call of a key operation fails ("call") on a server, or not
OpFaultsOf(c) == IF ScansWithCursor(c) THEN {"none", "call"} ELSE {"none"}

---------------------------------------------------------------------------
(* The admin views (views.py). A request carries its user, method, POST    *)
(* action and form fields; a response is its status, where a redirect      *)
(* leads, the store afterwards, the backend primitives invoked (calls) and *)
(* the exception that left the view (raised).                              *)

\* Who sends a request: nobody logged in, a logged-in user, a staff member
Users == {"anonymous", "member", "staff"}

Methods == {"GET", "POST"}

\* The test of staff_member_required: u.is_active and u.is_staff
IsStaff(user) == user = "staff"

\* The pagination entries of key_search's template context (none yet)
NoContext ==
    [paginated |-> FALSE, total_keys |-> 0, listed |-> 0, total_pages |-> 0,
     has_previous |-> FALSE, has_next |-> FALSE, start_index |-> 0,
     end_index |-> 0]

NoResponse ==
    [status |-> 0, location |-> "none", store |-> <<>>, calls |-> <<>>,
     raised |-> "none", context |-> NoContext]

\* return render(request, template, context)
Render(st, calls) ==
    [NoResponse EXCEPT !.status = 200, !.store = st, !.calls = calls]

\* return redirect(reverse(location, ...))
Redirect(location, st, calls) ==
    [NoResponse EXCEPT !.status = 302, !.location = location, !.store = st,
                       !.calls = calls]

\* An exception leaves the view: Django answers with its error page
Uncaught(exc, st, calls) ==
    [NoResponse EXCEPT !.status = 500, !.store = st, !.calls = calls,
                       !.raised = exc]

\* A view whose decorator lets every user in
staff_member_required_letting_everyone_in(user, st, response) == response

\* @staff_member_required: the view runs for an active staff member; anyone
\* else is redirected to the login page before the view's body
staff_member_required(user, st, response) ==
    IF IsStaff(user) THEN response ELSE Redirect("login", st, <<>>)

\* The timeout field of the forms: empty, a number, a negative number, not
\* a number
FormTimeouts == {<<>>, <<"0">>, <<"-", "1">>, <<"x">>}

RECURSIVE strip(_)
\* str.strip(): without the blanks at either end
strip(s) ==
    IF s = <<>> THEN s
    ELSE IF Head(s) = " " THEN strip(Tail(s))
    ELSE IF s[Len(s)] = " " THEN strip(SubSeq(s, 1, Len(s) - 1))
    ELSE s

Digits == {"0", "1", "2", "3", "4", "5", "6", "7", "8", "9"}

\* float(s) succeeds: an optional sign and digits (the numbers the forms
\* are sent here have no fraction and no exponent)
FloatParses(s) ==
    LET digits == IF s # <<>> /\ Head(s) = "-" THEN Tail(s) ELSE s
    IN  digits # <<>> /\ \A i \in DOMAIN digits : digits[i] \in Digits

\* float(s) < 0
FloatNegative(s) == Head(s) = "-" /\ \E i \in DOMAIN s : s[i] \in Digits \ {"0"}

\* float(timeout_str) fails or is negative
timeout_error(timeout_str) ==
    timeout_str # <<>> /\ (~FloatParses(timeout_str) \/ FloatNegative(timeout_str))

\* timeout = None, or float(timeout_str)
FormTimeout(timeout_str) == IF timeout_str = <<>> THEN NoTimeout ELSE timeout_str[1]

\* index: the abilities of every configured cache, each lookup in a try
index(c, st) == Render(st, <<>>)

\* min(a, b)
min(a, b) == IF a <= b THEN a ELSE b

\* key_search, "# Pagination info": the context entries computed from the
\* result of query
PageContext(query_result, page, per_page) ==
    LET total_count == query_result.total_count
        total_pages == (total_count + per_page - 1) \div per_page
    IN  [paginated    |-> TRUE,
         total_keys   |-> total_count,
         listed       |-> Len(query_result.keys),
         total_pages  |-> total_pages,
         has_previous |-> page > 1,
         has_next     |-> page < total_pages,
         start_index  |-> (page - 1) * per_page + 1,
         end_index    |-> min(page * per_page, total_count)]

\* key_search after its POST branch: an exact lookup when the search has no
\* wildcard, else a page of the query, else the bare page
KeySearchPage(c, cache_name, st, search_query, page, per_page) ==
    IF /\ search_query # <<>>
       /\ is_feature_supported(c, cache_name, "get_key")
       /\ ~Contains(search_query, "*")
       /\ ~Contains(search_query, "?")
    THEN LET key_result == get_key(c, cache_name, st, search_query)
         IN  IF key_result.outcome = "ok"
             THEN Render(key_result.store, key_result.calls)
             ELSE Uncaught(key_result.outcome, key_result.store, key_result.calls)
    ELSE IF is_feature_supported(c, cache_name, "query")
    THEN LET keyspace == CHOOSE ks \in KeyspaceOrders(c, st) : TRUE
             query_result == query(c, cache_name, st, keyspace,
                                   IF search_query # <<>> THEN search_query ELSE <<"*">>,
                                   page, per_page, DefaultScanCount, "none")
         IN  IF query_result.outcome = "ok"
             THEN [Render(query_result.store, query_result.calls) EXCEPT
                      !.context = PageContext(query_result, page, per_page)]
             ELSE Render(query_result.store, query_result.calls)
    ELSE Render(st, <<>>)

\* key_search(request, cache_name)
key_search(c, cache_name, st, method, action, search_query, page, per_page) ==
    LET cache_panel == get_cache_panel(c, cache_name, st)
    IN  IF cache_panel.outcome # "ok"
        THEN Uncaught(cache_panel.outcome, st, <<>>)
        ELSE IF /\ method = "POST"
                /\ action = "flush"
                /\ is_feature_supported(c, cache_name, "flush_cache")
        THEN LET result == flush_cache(c, cache_name, st)
             IN  Redirect("key_search", result.store, result.calls)
        ELSE KeySearchPage(c, cache_name, st, search_query, page, per_page)

\* key_detail from "# GET request - display the key" on: get_key outside
\* any try and any capability test
KeyDetailPage(c, cache_name, key, st, calls) ==
    LET key_result == get_key(c, cache_name, st, key)
    IN  IF key_result.outcome = "ok"
        THEN Render(key_result.store, calls \o key_result.calls)
        ELSE Uncaught(key_result.outcome, key_result.store,
                      calls \o key_result.calls)

\* key_detail(request, cache_name, key)
key_detail(c, cache_name, key, st, method, action, new_value, timeout_str) ==
    LET cache_panel == get_cache_panel(c, cache_name, st)
    IN  IF cache_panel.outcome # "ok"
        THEN Uncaught(cache_panel.outcome, st, <<>>)
        ELSE IF /\ method = "POST"
                /\ action = "delete"
                /\ is_feature_supported(c, cache_name, "delete_key")
        THEN LET result == delete_key(c, cache_name, st, key)
             IN  IF result.outcome = "ok"
                 THEN Redirect("key_search", result.store, result.calls)
                 ELSE KeyDetailPage(c, cache_name, key, result.store, result.calls)
        ELSE IF /\ method = "POST"
                /\ action = "update"
                /\ is_feature_supported(c, cache_name, "edit_key")
                /\ ~timeout_error(strip(timeout_str))
        THEN LET result == edit_key(c, cache_name, st, key, new_value,
                                    FormTimeout(strip(timeout_str)))
             IN  IF result.outcome = "ok"
                 THEN Redirect("key_detail", result.store, result.calls)
                 ELSE KeyDetailPage(c, cache_name, key, result.store, result.calls)
        ELSE KeyDetailPage(c, cache_name, key, st, <<>>)

\* key_add(request, cache_name): the POST branch tests "edit_key"
key_add(c, cache_name, st, method, key_name, value, timeout_str) ==
    LET cache_panel == get_cache_panel(c, cache_name, st)
    IN  IF cache_panel.outcome # "ok"
        THEN Uncaught(cache_panel.outcome, st, <<>>)
        ELSE IF /\ method = "POST"
                /\ is_feature_supported(c, cache_name, "edit_key")
                /\ strip(key_name) # <<>>
                /\ ~timeout_error(strip(timeout_str))
        THEN LET result == edit_key(c, cache_name, st, strip(key_name), value,
                                    FormTimeout(strip(timeout_str)))
             IN  IF result.outcome = "ok"
                 THEN Redirect("key_search", result.store, result.calls)
                 ELSE Render(result.store, result.calls)
        ELSE Render(st, <<>>)

\* No request in progress
NoRequest ==
    [pc |-> "idle", user |-> "none", view |-> "none", method |-> "none",
     action |-> "none", cache_name |-> "A", key |-> <<>>,
     timeout |-> <<>>, page |-> 0, per_page |-> 0, before |-> <<>>,
     response |-> NoResponse]

\* No statement of the relational adapter's query in progress: the next
\* statement (pc), the COUNT(*) fetched, the table as each statement saw it
\* and the number of other callers' operations in between
NoStatement ==
    [pc |-> "idle", total_count |-> 0, counted |-> <<>>, selected |-> <<>>,
     others |-> 0]

\* No call in progress
Idle ==
    [op |-> "idle", inst |-> "A", key |-> <<>>, value |-> None,
     timeout |-> NoTimeout, pattern |-> <<>>, page |-> 0, per_page |-> 0,
     scan_count |-> 0, fault |-> "none", before |-> <<>>, res |-> NoResult]

\* No cursor loop in progress
NoScan ==
    [pc |-> "idle", keyspace |-> <<>>, cursor |-> 0, all_keys |-> <<>>,
     cursors |-> <<>>]

Init ==
    /\ conf \in Configs
    /\ store = <<>>
    /\ call = Idle
    /\ scan = NoScan
    /\ http = NoRequest
    /\ db = NoStatement

\* A caller invokes get_key(key) on an instance
GetKey(inst, key) ==
    /\ call = Idle
    /\ HasPanel(conf, inst)
    /\ \E fault \in OpFaultsOf(conf) :
         LET res == IF fault = "none" THEN get_key(conf, inst, store, key)
                    ELSE BackendFails(conf, inst, store, "get_key")
         IN  /\ store' = res.store
             /\ call' = [Idle EXCEPT !.op = "get_key", !.inst = inst, !.key = key,
                                     !.fault = fault,
                                     !.before = store, !.res = res]
    /\ UNCHANGED <<conf, scan, http, db>>

\* A caller invokes delete_key(key)
DeleteKey(inst, key) ==
    /\ call = Idle
    /\ HasPanel(conf, inst)
    /\ \E fault \in OpFaultsOf(conf) :
         LET res == IF fault = "none" THEN delete_key(conf, inst, store, key)
                    ELSE BackendFails(conf, inst, store, "delete_key")
         IN  /\ store' = res.store
             /\ call' = [Idle EXCEPT !.op = "delete_key", !.inst = inst, !.key = key,
                                     !.fault = fault,
                                     !.before = store, !.res = res]
    /\ UNCHANGED <<conf, scan, http, db>>

\* A caller invokes edit_key(key, value, timeout)
EditKey(inst, key, value, timeout) ==
    /\ call = Idle
    /\ HasPanel(conf, inst)
    /\ \E fault \in OpFaultsOf(conf) :
         LET res == IF fault = "none" THEN edit_key(conf, inst, store, key, value, timeout)
                    ELSE BackendFails(conf, inst, store, "edit_key")
         IN  /\ store' = res.store
             /\ call' = [Idle EXCEPT !.op = "edit_key", !.inst = inst, !.key = key,
                                     !.value = value, !.timeout = timeout,
                                     !.fault = fault,
                                     !.before = store, !.res = res]
    /\ UNCHANGED <<conf, scan, http, db>>

\* A caller invokes flush_cache()
FlushCache(inst) ==
    /\ call = Idle
    /\ HasPanel(conf, inst)
    /\ \E fault \in OpFaultsOf(conf) :
         LET res == IF fault = "none" THEN flush_cache(conf, inst, store)
                    ELSE BackendFails(conf, inst, store, "flush_cache")
         IN  /\ store' = res.store
             /\ call' = [Idle EXCEPT !.op = "flush_cache", !.inst = inst,
                                     !.fault = fault,
                                     !.before = store, !.res = res]
    /\ UNCHANGED <<conf, scan, http, db>>

\* A caller invokes query(pattern, page, per_page, scan_count); the Redis
\* server walks its keyspace in an order of its own, and may fail
Query(inst, pattern, page, per_page, scan_count, fault) ==
    /\ call = Idle
    /\ HasPanel(conf, inst)
    /\ \E keyspace \in KeyspaceOrders(conf, store) :
         LET res == query(conf, inst, store, keyspace, pattern, page, per_page,
                          scan_count, fault)
         IN  /\ store' = res.store
             /\ call' = [Idle EXCEPT !.op = "query", !.inst = inst,
                                     !.pattern = pattern, !.page = page,
                                     !.per_page = per_page,
                                     !.scan_count = scan_count,
                                     !.fault = fault,
                                     !.before = store, !.res = res]
    /\ UNCHANGED <<conf, scan, http, db>>

\* A caller resolves a cache name to its adapter
GetCachePanel(cache_name) ==
    /\ call = Idle
    /\ call' = [Idle EXCEPT !.op = "get_cache_panel", !.inst = cache_name,
                            !.before = store,
                            !.res = get_cache_panel(conf, cache_name, store)]
    /\ UNCHANGED <<conf, store, scan, http, db>>

\* The caller takes the result
Return ==
    /\ call # Idle
    /\ call' = Idle
    /\ UNCHANGED <<conf, store, scan, http, db>>

Next ==
    \/ \E inst \in Instances, key \in AllKeys :
         key \in KeysOf(inst) /\ GetKey(inst, key)
    \/ \E inst \in Instances, key \in AllKeys :
         key \in KeysOf(inst) /\ DeleteKey(inst, key)
    \/ \E inst \in Instances, key \in AllKeys, value \in {None, "v"},
          timeout \in Timeouts :
         /\ key \in KeysOf(inst)
         /\ value \in ValuesOf(inst)
         /\ timeout \in TimeoutsOf(inst)
         /\ EditKey(inst, key, value, timeout)
    \/ \E inst \in Instances : FlushCache(inst)
    \/ \E inst \in Instances, page \in Pages, per_page \in PerPages :
         \E pattern \in PatternsOf(inst), scan_count \in ScanCountsOf(conf),
            fault \in FaultsOf(conf, page, per_page) :
           Query(inst, pattern, page, per_page, scan_count, fault)
    \/ \E cache_name \in CacheNames : GetCachePanel(cache_name)
    \/ Return

Spec == Init /\ [][Next]_vars

---------------------------------------------------------------------------
(* The cursor loop, one SCAN call per step                                 *)

\* The match argument of the loop's SCAN calls: the django-redis adapter
\* passes make_key(pattern), the direct adapter "*"
ScanMatch(c, inst, pattern) ==
    IF PanelClass(c.backend) = "DjangoRedisCachePanel"
    THEN make_key(c, inst, IF IsFilter(pattern) THEN pattern ELSE <<"*">>)
    ELSE <<"*">>

\* The physical keys the two instances can have stored on the server
ServerKeys(c) ==
    UNION {{make_key(c, inst, k) : k \in KeysOf(inst)} : inst \in Instances}

\* The server's contents when the loop starts: any of those keys, unexpired
ServerStores(c) ==
    UNION {[keys -> {[value |-> "v", ttl |-> "never"]}] :
              keys \in SUBSET ServerKeys(c)}

\* query(pattern, scan_count=scan_count) has reached "cursor = 0" before
\* "while True" in an adapter with a server connection
ScanInit ==
    /\ conf \in {c \in Configs : ScansWithCursor(c) /\ c.override = "none"}
    /\ store \in ServerStores(conf)
    /\ \E inst \in Instances, pattern \in PatternsOf("A"),
          scan_count \in ScanCounts :
         /\ pattern \in PatternsOf(inst)
         /\ call = [Idle EXCEPT !.op = "query", !.inst = inst,
                                !.pattern = pattern, !.page = 1,
                                !.per_page = MaxPerPage,
                                !.scan_count = scan_count, !.before = store]
    /\ \E keyspace \in KeyspaceOrders(conf, store) :
         scan = [NoScan EXCEPT !.pc = "scan", !.keyspace = keyspace]
    /\ http = NoRequest
    /\ db = NoStatement

\* A loop that also stops at the first SCAN call that returns no key
ScanStep_stopping_on_empty_batch ==
    /\ scan.pc = "scan"
    /\ LET reply == Scan(scan.keyspace, scan.cursor,
                         ScanMatch(conf, call.inst, call.pattern),
                         call.scan_count)
       IN  scan' = [scan EXCEPT !.cursors = Append(@, scan.cursor),
                                !.all_keys = @ \o reply.keys,
                                !.cursor = reply.cursor,
                                !.pc = IF reply.cursor = 0 \/ reply.keys = <<>>
                                       THEN "done" ELSE "scan"]
    /\ UNCHANGED <<conf, store, call, http, db>>

\* One turn of "while True": cursor, keys = connection.scan(cursor=cursor,
\* match=..., count=scan_count); all_keys.extend(keys); if cursor == 0: break
ScanStep ==
    /\ scan.pc = "scan"
    /\ LET reply == Scan(scan.keyspace, scan.cursor,
                         ScanMatch(conf, call.inst, call.pattern),
                         call.scan_count)
       IN  scan' = [scan EXCEPT !.cursors = Append(@, scan.cursor),
                                !.all_keys = @ \o reply.keys,
                                !.cursor = reply.cursor,
                                !.pc = IF reply.cursor = 0 THEN "done"
                                       ELSE "scan"]
    /\ UNCHANGED <<conf, store, call, http, db>>

ScanNext == ScanStep

\* The loop is straight-line code of one thread: it takes its next turn
ScanSpec == ScanInit /\ [][ScanNext]_vars /\ WF_vars(ScanStep)

---------------------------------------------------------------------------
(* Requests to the views                                                   *)

\* The configurations the views are served under: one per adapter and
\* override
ViewConfigs ==
    {c \in Configs : c.prefix = <<>> /\ c.other = "prefix" /\ c.vendor = "postgresql"}

\* The POST actions a form may carry
SearchActions == {"none", "flush"}

DetailActions == {"none", "delete", "update"}

\* The q parameter of key_search: absent, a key, a wildcard pattern
SearchQueries == {<<>>, K_a_colon_b, <<"a", "_", "*">>}

\* Key names that key_add rejects: empty, blanks only
BlankKeyNames == {<<>>, <<" ">>}

\* The timeout fields sent to each instance's forms
FormTimeoutsOf(inst) == IF inst = "A" THEN FormTimeouts ELSE {<<>>}

ViewInit ==
    /\ conf \in ViewConfigs
    /\ store = <<>>
    /\ call = Idle
    /\ scan = NoScan
    /\ http = NoRequest
    /\ db = NoStatement

\* A user requests the index view
Index(user, method) ==
    /\ http = NoRequest
    /\ LET response == staff_member_required(user, store, index(conf, store))
       IN  /\ store' = response.store
           /\ http' = [NoRequest EXCEPT !.pc = "responded", !.user = user,
                                        !.view = "index", !.method = method,
                                        !.before = store,
                                        !.response = response]
    /\ UNCHANGED <<conf, call, scan, db>>

\* A user requests key_search of a cache
KeySearch(user, cache_name, method, action, search_query, page, per_page) ==
    /\ http = NoRequest
    /\ LET response ==
               staff_member_required(user, store,
                   key_search(conf, cache_name, store, method, action,
                              search_query, page, per_page))
       IN  /\ store' = response.store
           /\ http' = [NoRequest EXCEPT !.pc = "responded", !.user = user,
                                        !.view = "key_search",
                                        !.method = method, !.action = action,
                                        !.cache_name = cache_name,
                                        !.key = search_query,
                                        !.page = page, !.per_page = per_page,
                                        !.before = store,
                                        !.response = response]
    /\ UNCHANGED <<conf, call, scan, db>>

\* A user requests key_detail of a key
KeyDetail(user, cache_name, key, method, action, timeout_str) ==
    /\ http = NoRequest
    /\ LET response ==
               staff_member_required(user, store,
                   key_detail(conf, cache_name, key, store, method, action,
                              "v", timeout_str))
       IN  /\ store' = response.store
           /\ http' = [NoRequest EXCEPT !.pc = "responded", !.user = user,
                                        !.view = "key_detail",
                                        !.method = method, !.action = action,
                                        !.cache_name = cache_name,
                                        !.key = key, !.timeout = timeout_str,
                                        !.before = store,
                                        !.response = response]
    /\ UNCHANGED <<conf, call, scan, db>>

\* A user requests key_add; the form may lack the key name
KeyAdd(user, cache_name, method, key_name, timeout_str) ==
    /\ http = NoRequest
    /\ LET response ==
               staff_member_required(user, store,
                   key_add(conf, cache_name, store, method, key_name, "v",
                           timeout_str))
       IN  /\ store' = response.store
           /\ http' = [NoRequest EXCEPT !.pc = "responded", !.user = user,
                                        !.view = "key_add",
                                        !.method = method,
                                        !.action = IF method = "POST"
                                                   THEN "add" ELSE "none",
                                        !.cache_name = cache_name,
                                        !.key = key_name,
                                        !.timeout = timeout_str,
                                        !.before = store,
                                        !.response = response]
    /\ UNCHANGED <<conf, call, scan, db>>

\* The response has been sent
Respond ==
    /\ http # NoRequest
    /\ http' = NoRequest
    /\ UNCHANGED <<conf, store, call, scan, db>>

ViewNext ==
    \/ \E user \in Users, method \in Methods : Index(user, method)
    \/ \E user \in Users, cache_name \in Instances, method \in Methods :
         \E action \in IF method = "POST" THEN SearchActions ELSE {"none"},
            search_query \in SearchQueries :
           \E page \in IF method = "GET" /\ search_query # K_a_colon_b
                        THEN Pages ELSE {1},
              per_page \in IF method = "GET" /\ search_query # K_a_colon_b
                            THEN PerPages ELSE {MaxPerPage} :
             KeySearch(user, cache_name, method, action, search_query, page,
                       per_page)
    \/ \E user \in Users, cache_name \in Instances, method \in Methods :
         \E key \in KeysOf(cache_name),
            action \in IF method = "POST" THEN DetailActions ELSE {"none"} :
           \E timeout_str \in IF action = "update"
                              THEN FormTimeoutsOf(cache_name) ELSE {<<>>} :
             KeyDetail(user, cache_name, key, method, action, timeout_str)
    \/ \E user \in Users, cache_name \in Instances, method \in Methods :
         \E key_name \in IF method = "POST"
                         THEN KeysOf(cache_name) \cup BlankKeyNames ELSE {<<>>},
            timeout_str \in IF method = "POST"
                            THEN FormTimeoutsOf(cache_name) ELSE {<<>>} :
           KeyAdd(user, cache_name, method, key_name, timeout_str)
    \/ Respond

ViewSpec == ViewInit /\ [][ViewNext]_vars


---------------------------------------------------------------------------
(* The relational adapter's query, one statement per step, among other     *)
(* callers' edit_key and delete_key                                        *)

\* How many operations of other callers may fall between the statements
MaxOthers == 2

\* The configurations with the relational adapter
DbConfigs ==
    {c \in Configs : PanelClass(c.backend) = "DatabaseCachePanel" /\ c.override = "none"}

\* The table when the query starts: any of the instances' keys, unexpired
DbInit ==
    /\ conf \in DbConfigs
    /\ store \in ServerStores(conf)
    /\ \E inst \in Instances, page \in Pages, per_page \in PerPages :
         \E pattern \in PatternsOf(inst) :
           call = [Idle EXCEPT !.op = "query", !.inst = inst,
                               !.pattern = pattern, !.page = page,
                               !.per_page = per_page,
                               !.scan_count = DefaultScanCount,
                               !.before = store]
    /\ scan = NoScan
    /\ http = NoRequest
    /\ db = [NoStatement EXCEPT !.pc = "count"]

\* cursor.execute(count_sql, ...); total_count = cursor.fetchone()[0]
DbCount ==
    /\ db.pc = "count"
    /\ db' = [db EXCEPT !.pc = "select", !.counted = store,
                        !.total_count =
                            DbQuery(conf, call.inst, store, call.pattern,
                                    call.page, call.per_page).total_count]
    /\ UNCHANGED <<conf, store, call, scan, http>>

\* cursor.execute(keys_sql, ...); raw_keys = cursor.fetchall(); the keys
\* are decoded and the result is returned with the count fetched before
DbSelect ==
    /\ db.pc = "select"
    /\ db' = [db EXCEPT !.pc = "done", !.selected = store]
    /\ call' = [call EXCEPT !.res =
                   [DbQuery(conf, call.inst, store, call.pattern, call.page,
                            call.per_page)
                       EXCEPT !.total_count = db.total_count]]
    /\ UNCHANGED <<conf, store, scan, http>>

\* Another caller's edit_key commits while the query is under way
OtherEditKey(inst, key) ==
    /\ db.pc \in {"count", "select"}
    /\ db.others < MaxOthers
    /\ store' = edit_key(conf, inst, store, key, "v", NoTimeout).store
    /\ store' # store
    /\ db' = [db EXCEPT !.others = @ + 1]
    /\ UNCHANGED <<conf, call, scan, http>>

\* Another caller's delete_key commits while the query is under way
OtherDeleteKey(inst, key) ==
    /\ db.pc \in {"count", "select"}
    /\ db.others < MaxOthers
    /\ store' = delete_key(conf, inst, store, key).store
    /\ store' # store
    /\ db' = [db EXCEPT !.others = @ + 1]
    /\ UNCHANGED <<conf, call, scan, http>>

DbNext ==
    \/ DbCount
    \/ DbSelect
    \/ \E inst \in Instances : \E key \in KeysOf(inst) : OtherEditKey(inst, key)
    \/ \E inst \in Instances : \E key \in KeysOf(inst) : OtherDeleteKey(inst, key)

DbSpec == DbInit /\ [][DbNext]_vars

---------------------------------------------------------------------------
(* Properties                                                              *)

\* The physical key of the call in progress
CallKey == make_key(conf, call.inst, call.key)

\* The call in progress is op and it returned
Ok(op) == call.op = op /\ call.res.outcome = "ok"

\* The live entries of both instances, by instance and logical key
AllContents(st) == [inst \in Instances |-> Contents(conf, inst, st, KeysOf(inst))]

\* C1: for every adapter and every operation among query, get_key,
\* delete_key, edit_key and flush_cache, when the effective capability of
\* the operation (the class's ABILITIES after the instance's override) is
\* false, the call raises NotImplementedError, makes no backend call and
\* leaves the cache as it was.
C1_UnsupportedRaises ==
    (call.op \in Features /\ ~abilities(conf, call.inst)[call.op]) =>
        /\ call.res.outcome = "NotImplementedError"
        /\ call.res.calls = <<>>
        /\ store = call.before

\* C1 happens: flush_cache was refused on an instance whose override
\* switches it off, over a store that holds entries
C1_Witness ==
    /\ call.op = "flush_cache"
    /\ ABILITIES(PanelClass(conf.backend))["flush_cache"]
    /\ ~abilities(conf, call.inst)["flush_cache"]
    /\ call.res.outcome = "NotImplementedError"
    /\ DOMAIN call.before # {}

\* C2, as amended: for any adapter with get_key and edit_key true whose
\* backend is not the dummy (no-op) backend, after edit_key(k, v) with the
\* timeout left out, get_key(k) returns exists = true with value v, and
\* after a following delete_key(k), get_key(k) returns exists = false.
C2_RoundTrip ==
    (/\ Ok("edit_key")
     /\ call.timeout = NoTimeout
     /\ abilities(conf, call.inst)["get_key"]
     /\ Backend(conf) # "dummy") =>
        LET got   == get_key(conf, call.inst, store, call.key)
            del   == delete_key(conf, call.inst, got.store, call.key)
            after == get_key(conf, call.inst, del.store, call.key)
        IN  /\ got.outcome = "ok" /\ got.exists /\ got.value = call.value
            /\ abilities(conf, call.inst)["delete_key"] =>
                  /\ del.outcome = "ok"
                  /\ after.outcome = "ok" /\ ~after.exists

\* C2 happens: a value was written to a storing backend through an adapter
\* that can also read and delete
C2_Witness ==
    /\ Ok("edit_key")
    /\ call.timeout = NoTimeout
    /\ call.value = "v"
    /\ Backend(conf) # "dummy"
    /\ abilities(conf, call.inst)["get_key"]
    /\ abilities(conf, call.inst)["delete_key"]
    /\ Live(store, CallKey)

\* C2, as claimed: the round trip for any adapter with get_key and edit_key
\* true, the dummy backend included.
C2_RoundTripAnyAdapter ==
    (/\ Ok("edit_key")
     /\ call.timeout = NoTimeout
     /\ abilities(conf, call.inst)["get_key"]) =>
        LET got   == get_key(conf, call.inst, store, call.key)
            del   == delete_key(conf, call.inst, got.store, call.key)
            after == get_key(conf, call.inst, del.store, call.key)
        IN  /\ got.outcome = "ok" /\ got.exists /\ got.value = call.value
            /\ abilities(conf, call.inst)["delete_key"] =>
                  /\ del.outcome = "ok"
                  /\ after.outcome = "ok" /\ ~after.exists

\* C3: get_key(k).exists is true exactly when k is present (held and not
\* expired), whatever its value: a key stored with None yields exists = true
\* and the value stored, and exists = false comes with value None.
C3_ExistsIffPresent ==
    Ok("get_key") =>
        /\ call.res.exists <=> Live(call.before, CallKey)
        /\ Live(call.before, CallKey) => call.res.value = call.before[CallKey].value
        /\ ~call.res.exists => call.res.value = None

\* C3 happens: get_key found a key whose stored value is None
C3_Witness ==
    /\ Ok("get_key")
    /\ Live(call.before, CallKey)
    /\ call.before[CallKey].value = None
    /\ call.res.exists

\* C4: for an adapter with delete_key true, delete_key(k) on an absent key
\* returns success = true, so does a second delete_key(k), and both leave
\* the contents of the cache unchanged.
C4_DeleteIdempotent ==
    (Ok("delete_key") /\ ~Live(call.before, CallKey)) =>
        LET again == delete_key(conf, call.inst, store, call.key)
        IN  /\ call.res.success
            /\ AllContents(store) = AllContents(call.before)
            /\ again.outcome = "ok" /\ again.success
            /\ AllContents(again.store) = AllContents(store)

\* C4 happens: delete_key returned for a key that was absent while the
\* instance held another key
C4_Witness ==
    /\ Ok("delete_key")
    /\ ~Live(call.before, CallKey)
    /\ call.res.success
    /\ DOMAIN Contents(conf, call.inst, call.before, KeysOf(call.inst)) # {}

\* The logical keys of the calling instance other than the call's key
OtherKeys == KeysOf(call.inst) \ {call.key}

\* C5, as amended: on any backend but the dummy (no-op) backend,
\* edit_key(k, v) with the timeout left out makes k present with value v,
\* both when k was absent and when it was present, and changes the presence
\* and value of no other key of the instance.
C5_Upsert ==
    (Ok("edit_key") /\ call.timeout = NoTimeout /\ Backend(conf) # "dummy") =>
        /\ call.res.success
        /\ Live(store, CallKey) /\ store[CallKey].value = call.value
        /\ Contents(conf, call.inst, store, OtherKeys)
             = Contents(conf, call.inst, call.before, OtherKeys)

\* C5 happens: edit_key overwrote a present key with another value while
\* the instance held a second key
C5_Witness ==
    /\ Ok("edit_key")
    /\ call.timeout = NoTimeout
    /\ Backend(conf) # "dummy"
    /\ Live(call.before, CallKey)
    /\ call.before[CallKey].value # call.value
    /\ DOMAIN Contents(conf, call.inst, call.before, OtherKeys) # {}

\* C5, as claimed: the upsert on every backend, the dummy backend included.
C5_UpsertAnyAdapter ==
    (Ok("edit_key") /\ call.timeout = NoTimeout) =>
        /\ call.res.success
        /\ Live(store, CallKey) /\ store[CallKey].value = call.value
        /\ Contents(conf, call.inst, store, OtherKeys)
             = Contents(conf, call.inst, call.before, OtherKeys)

\* C6: after flush_cache succeeds, every key of the flushed instance is
\* absent: get_key(k).exists is false for every k, whatever edit_key calls
\* came before.
C6_FlushEmpties ==
    (Ok("flush_cache") /\ call.res.success) =>
        \A k \in KeysOf(call.inst) :
            /\ ~Live(store, make_key(conf, call.inst, k))
            /\ ~_get_key(conf, call.inst, store, k).exists

\* C6 happens: flush_cache succeeded on an instance that held a key
C6_Witness ==
    /\ Ok("flush_cache")
    /\ call.res.success
    /\ DOMAIN Contents(conf, call.inst, call.before, KeysOf(call.inst)) # {}

\* C7: flush_cache on one instance leaves every key of the other instance
\* as it was, also when the two share one physical backend and differ only
\* in key prefix or version.
C7_FlushDoesNotCascade ==
    Ok("flush_cache") =>
        \A other \in Instances \ {call.inst} :
            Contents(conf, other, store, KeysOf(other))
                = Contents(conf, other, call.before, KeysOf(other))

RECURSIVE GlobAt(_, _, _, _)
\* The glob of the pattern language: "*" any run of characters, "?" exactly
\* one character, every other character itself
GlobAt(s, i, p, j) ==
    IF j > Len(p) THEN i > Len(s)
    ELSE IF p[j] = "*" THEN \E k \in i..(Len(s) + 1) : GlobAt(s, k, p, j + 1)
    ELSE IF p[j] = "?" THEN i <= Len(s) /\ GlobAt(s, i + 1, p, j + 1)
    ELSE i <= Len(s) /\ s[i] = p[j] /\ GlobAt(s, i + 1, p, j + 1)

Glob(s, p) == GlobAt(s, 1, p, 1)

\* The calling instance has no key prefix and the store held nothing but
\* its own, never-expiring keys when the call was made
OwnKeysOnly ==
    /\ key_prefix(conf, call.inst) = <<>>
    /\ \A pk \in DOMAIN call.before :
          /\ call.before[pk].ttl = "never"
          /\ \E k \in KeysOf(call.inst) : pk = make_key(conf, call.inst, k)

\* The stored logical keys of the calling instance that match the call's
\* pattern, ascending
Expected ==
    SortStrings(SeqOfSet({k \in KeysOf(call.inst) :
                            /\ Live(call.before, make_key(conf, call.inst, k))
                            /\ Glob(k, call.pattern)}))

\* C8: for every adapter with query true, query(pattern) returns exactly
\* the stored logical keys that match the glob pattern, in ascending order
\* (stated for the first page when it holds every match, on an instance
\* that is alone on its backend).
C8_QueryMatchesGlob ==
    (/\ Ok("query")
     /\ ~call.res.error
     /\ OwnKeysOnly
     /\ call.page = 1
     /\ Len(Expected) <= call.per_page) =>
        call.res.keys = Expected

\* C9: a pattern with neither "*" nor "?" is an exact match in every
\* enumerable adapter: the result holds the logical key equal to the
\* pattern when it is stored and nothing else, whatever other characters
\* the pattern contains.
C9_ExactMatch ==
    (/\ Ok("query")
     /\ ~call.res.error
     /\ OwnKeysOnly
     /\ PanelClass(conf.backend) \in Enumerable
     /\ ~Contains(call.pattern, "*") /\ ~Contains(call.pattern, "?")
     /\ call.page = 1) =>
        call.res.keys = IF Live(call.before, make_key(conf, call.inst, call.pattern))
                        THEN <<call.pattern>>
                        ELSE <<>>

\* C10: for an adapter with query true, N >= 1 keys matching the pattern
\* and per_page = p >= 1, the last page ceil(N / p) returns N mod p keys
\* (p keys when p divides N), every earlier page returns p keys, and
\* total_count is N on every page.  N is the number of keys the adapter
\* matches, read off a single page wide enough to hold them all.
C10_Pagination ==
    (Ok("query") /\ ~call.res.error) =>
        \A keyspace \in KeyspaceOrders(conf, call.before) :
            LET whole == query(conf, call.inst, call.before, keyspace, call.pattern,
                               1, Cardinality(DOMAIN call.before) + 1,
                               call.scan_count, "none")
                N    == Len(whole.keys)
                p    == call.per_page
                last == (N + p - 1) \div p
            IN  /\ call.res.total_count = N
                /\ (N >= 1 /\ call.page < last) => Len(call.res.keys) = p
                /\ (N >= 1 /\ call.page = last) =>
                      Len(call.res.keys) = IF N % p = 0 THEN p ELSE N % p

\* C10 happens: the second and last page of three matches, two to a page,
\* came back with one key
C10_Witness ==
    /\ Ok("query")
    /\ call.res.total_count = 3
    /\ call.per_page = 2
    /\ call.page = 2
    /\ Len(call.res.keys) = 1

\* The adapter of the configuration enumerates
IsEnumerable == PanelClass(conf.backend) \in Enumerable

RECURSIVE PagesFrom(_, _, _)
\* The keys of pages page, page + 1, ... last of the call's query, one after
\* another, the server walking its keyspace in the order given
PagesFrom(keyspace, page, last) ==
    IF page > last THEN <<>>
    ELSE query(conf, call.inst, call.before, keyspace, call.pattern, page,
               call.per_page, call.scan_count, "none").keys
         \o PagesFrom(keyspace, page + 1, last)

\* C11: every result of query of an enumerable adapter has at most per_page
\* keys, and total_count is the number of keys matching before pagination
\* (what all the pages hold together), not the size of the page returned.
C11_CountBeforePagination ==
    (Ok("query") /\ IsEnumerable /\ ~call.res.error) =>
        /\ Len(call.res.keys) <= call.per_page
        /\ \A keyspace \in KeyspaceOrders(conf, call.before) :
              call.res.total_count
                 = Len(PagesFrom(keyspace, 1, Cardinality(DOMAIN call.before) + 1))

\* C11 happens: a full page came back with more keys matching than it holds
C11_Witness ==
    /\ Ok("query")
    /\ IsEnumerable
    /\ Len(call.res.keys) = call.per_page
    /\ call.res.total_count > call.per_page

\* seq is in ascending lexicographic order
Ascending(seq) == \A i \in 1..(Len(seq) - 1) : StrLeq(seq[i], seq[i + 1])

\* C12: the keys of a query result are in lexicographic order of the
\* logical key, and a second query with the same arguments against the
\* unchanged data returns the same sequence, in every enumerable adapter,
\* also when the stored keys differ in version or prefix.
C12_OrderedAndRepeatable ==
    (Ok("query") /\ IsEnumerable /\ ~call.res.error) =>
        /\ Ascending(call.res.keys)
        /\ \A keyspace \in KeyspaceOrders(conf, store) :
              query(conf, call.inst, store, keyspace, call.pattern, call.page,
                    call.per_page, call.scan_count, "none").keys = call.res.keys

\* The store held nothing but the calling instance's own keys when the call
\* was made
OwnStore ==
    \A pk \in DOMAIN call.before :
        \E k \in KeysOf(call.inst) : pk = make_key(conf, call.inst, k)

\* The logical keys of the calling instance present when the call was made,
\* ascending
Present ==
    SortStrings(SeqOfSet(DOMAIN Contents(conf, call.inst, call.before,
                                         KeysOf(call.inst))))

\* C13: for the in-process adapter, after any sequence of edit_key,
\* delete_key and flush_cache calls on it, query("*") with per_page at
\* least the number of keys returns exactly the logical keys present, and
\* total_count is their number.
C13_LocMemListsPresent ==
    (/\ Ok("query")
     /\ PanelClass(conf.backend) = "LocalMemoryCachePanel"
     /\ OwnStore
     /\ call.pattern = <<"*">>
     /\ call.page = 1
     /\ call.per_page >= Len(Present)) =>
        /\ call.res.keys = Present
        /\ call.res.total_count = Len(Present)

\* st without its expired entries
Unexpired(st) == [pk \in {x \in DOMAIN st : Live(st, x)} |-> st[pk]]

\* C14: for the relational adapter, a row whose expires time has passed is
\* left out of both keys and total_count of every query result, for every
\* pattern and page: the result is that of the table without such rows.
C14_DbExcludesExpired ==
    (Ok("query") /\ PanelClass(conf.backend) = "DatabaseCachePanel") =>
        LET clean == query(conf, call.inst, Unexpired(call.before), <<>>,
                           call.pattern, call.page, call.per_page,
                           call.scan_count, "none")
        IN  /\ call.res.keys = clean.keys
            /\ call.res.total_count = clean.total_count


\* The adapters that talk to a Redis server
Remote == PanelClass(conf.backend) \in {"DjangoRedisCachePanel", "RedisCachePanel"}

\* The SCAN calls the call's query makes when none of them fails
ScansNeeded ==
    LET keyspace == CHOOSE ks \in KeyspaceOrders(conf, call.before) : TRUE
    IN  Len(query(conf, call.inst, call.before, keyspace, call.pattern,
                  call.page, call.per_page, call.scan_count, "none").calls)

\* The call's failure happened: the connection failed, or the loop came to
\* the SCAN call that fails
FaultHit ==
    \/ call.fault = "connect"
    \/ FaultAt(call.fault) \in 1..ScansNeeded

\* C15: in both remote adapters a connectivity or protocol failure during
\* query, while the connection handle is obtained or on any SCAN call (the
\* first or a later one), never propagates: query returns keys [],
\* total_count 0 and an error, whatever keys it had accumulated
C15_RemoteFailureContained ==
    (/\ call.op = "query"
     /\ Remote
     /\ abilities(conf, call.inst)["query"]
     /\ FaultHit) =>
        /\ call.res.outcome = "ok"
        /\ call.res.keys = <<>>
        /\ call.res.total_count = 0
        /\ call.res.error

\* The match argument of the loop in progress
LoopMatch == ScanMatch(conf, call.inst, call.pattern)

\* What the server answers to SCAN at `cursor` in the loop in progress
Reply(cursor) == Scan(scan.keyspace, cursor, LoopMatch, call.scan_count)

\* The loop's SCAN calls began at cursor 0, each further call was given the
\* cursor the one before returned, and the loop has stopped exactly if the
\* last call returned cursor 0
CursorChain ==
    LET n == Len(scan.cursors)
    IN  /\ n > 0 => scan.cursors[1] = 0
        /\ \A i \in 1..(n - 1) :
              /\ scan.cursors[i + 1] = Reply(scan.cursors[i]).cursor
              /\ scan.cursors[i + 1] # 0
        /\ n > 0 => scan.cursor = Reply(scan.cursors[n]).cursor
        /\ scan.pc = "done" <=> (n > 0 /\ scan.cursor = 0)

\* A loop that has stopped has read every key of the server that matches,
\* and has collected what query's loop collects
NothingUnread ==
    scan.pc = "done" =>
        /\ \A pk \in DOMAIN store :
              RedisGlob(pk, LoopMatch) =>
                  \E i \in 1..Len(scan.all_keys) : scan.all_keys[i] = pk
        /\ scan.all_keys = ScanLoop(scan.keyspace, 0, LoopMatch, call.scan_count,
                                    NoKeys, "none").all_keys

\* C16: the cursor loop starts at cursor 0, passes each returned cursor to the
\* next SCAN call and stops exactly when a SCAN call returns cursor 0; as the
\* server comes to return cursor 0, the loop terminates, and it never stops
\* before that with keys unread
C16_ScanLoopRunsToCursorZero ==
    /\ [](CursorChain /\ NothingUnread)
    /\ <>(scan.pc = "done")

\* A loop of several SCAN calls, one of them returning no key before the
\* last, has stopped with keys collected
C16_Witness ==
    /\ scan.pc = "done"
    /\ Len(scan.all_keys) >= 1
    /\ \E i \in 1..(Len(scan.cursors) - 1) : Reply(scan.cursors[i]).keys = <<>>

\* The file-based adapter with the abilities it ships with
FileBased == PanelClass(conf.backend) = "FileBasedCachePanel" /\ conf.override = "none"

\* C17: for the file-based store the query capability is false and calling
\* query raises the unsupported-operation error, while get_key on a key set
\* before succeeds with exists = true and the value set
C17_FileBasedNoQuery ==
    FileBased =>
        /\ ~abilities(conf, call.inst)["query"]
        /\ call.op = "query" => call.res.outcome = "NotImplementedError"
        /\ (Ok("edit_key") /\ call.timeout = NoTimeout) =>
              LET got == get_key(conf, call.inst, store, call.key)
              IN  got.outcome = "ok" /\ got.exists /\ got.value = call.value

\* C17 happens: with a key set before, query has raised, and get_key of that
\* key finds it
C17_Witness ==
    /\ FileBased
    /\ call.op = "query"
    /\ call.res.outcome = "NotImplementedError"
    /\ \E k \in KeysOf(call.inst) :
          /\ Live(store, make_key(conf, call.inst, k))
          /\ get_key(conf, call.inst, store, k).exists
          /\ get_key(conf, call.inst, store, k).value = "v"

\* The decode step of the conf's adapter, applied to a physical key by the
\* instance `inst`
UserKey(c, inst, physical_key) ==
    LET panel == PanelClass(c.backend)
    IN  CASE panel = "LocalMemoryCachePanel" ->
                LocMemUserKey(physical_key, key_prefix(c, inst))
          [] panel = "DatabaseCachePanel" ->
                DbUserKey(physical_key, key_prefix(c, inst))
          [] panel = "DjangoRedisCachePanel" ->
                DjangoRedisUserKey(physical_key, key_prefix(c, inst))
          [] panel = "RedisCachePanel" -> RedisUserKey(physical_key)
          [] OTHER -> physical_key

\* ":1:<prefix>:" for the calling instance's non-empty prefix
CodecHead ==
    <<":", "1", ":">> \o key_prefix(conf, call.inst) \o <<":">>

\* C18: the decode step of every enumerable adapter maps a physical key of
\* the form ":1:<prefix>:<user_key>", with <prefix> the configured prefix, to
\* <user_key>
C18_CodecReversal ==
    (/\ Ok("query")
     /\ IsEnumerable
     /\ key_prefix(conf, call.inst) # <<>>) =>
        \A pk \in DOMAIN call.before :
            StartsWith(pk, CodecHead) =>
                UserKey(conf, call.inst, pk) = DropFirst(pk, Len(CodecHead))

\* The call's query, had the same store been behind the adapter of backend b
QueryOn(b, keyspace) ==
    query([conf EXCEPT !.backend = b], call.inst, call.before, keyspace,
          call.pattern, call.page, call.per_page, call.scan_count, "none")

\* C19: enumeration is consistent across backends: given the same stored
\* logical keys and the same (pattern, page, per_page), the locmem, database
\* and both Redis adapters return the same key sequence and total_count
C19_SameAcrossBackends ==
    (/\ Ok("query")
     /\ ~call.res.error
     /\ IsEnumerable
     /\ conf.override = "none"
     /\ OwnKeysOnly) =>
        \A b \in EnumerableBackends :
            \A keyspace \in KeyspaceOrders([conf EXCEPT !.backend = b], call.before) :
                /\ QueryOn(b, keyspace).keys = call.res.keys
                /\ QueryOn(b, keyspace).total_count = call.res.total_count

\* C20: resolving a cache name that is not in the configuration fails with
\* ValueError and returns no adapter; resolving a configured name never
\* fails with that error
C20_ResolveByName ==
    call.op = "get_cache_panel" =>
        /\ call.inst \notin DOMAIN CACHES(conf) =>
              call.res.outcome = "ValueError" /\ call.res.panel = "none"
        /\ call.inst \in DOMAIN CACHES(conf) =>
              call.res.outcome # "ValueError"

\* The call resolved the name of a configured cache
Resolved == call.op = "get_cache_panel" /\ call.inst \in Instances

\* C21: when the backend type of a configured cache has no binding in the
\* registry, the dispatcher returns the generic adapter, whose capabilities
\* are get_key and delete_key true and query, edit_key, add_key and
\* flush_cache false
C21_GenericFallback ==
    (Resolved /\ conf.backend \notin DOMAIN BACKEND_PANEL_MAP) =>
        /\ call.res.outcome = "ok"
        /\ call.res.panel = "GenericCachePanel"
        /\ \A f \in Features :
              ABILITIES(call.res.panel)[f] <=> f \in {"get_key", "delete_key"}
        /\ OverrideAbilities(conf, call.inst) = <<>> =>
              \A f \in Features :
                 is_feature_supported(conf, call.inst, f)
                    <=> f \in {"get_key", "delete_key"}

\* C21 happens: the cache of a backend class the registry does not name was
\* resolved
C21_Witness ==
    /\ Resolved
    /\ conf.backend = "custom"
    /\ conf.override = "none"
    /\ call.res.panel = "GenericCachePanel"

\* The reference bound to the conf's backend names no adapter class: neither
\* a class of this module by its name, nor one by its dotted path
BrokenReference ==
    /\ conf.backend \in ExtensionBackends
    /\ LET reference == BACKEND_PANEL_MAP[conf.backend]
           n == Len(reference)
       IN  ~(/\ reference[n] \in Globals
             /\ n = 1 \/ SubSeq(reference, 1, n - 1) = ThisModule)

\* C22: when the registry binds a backend type to a custom adapter reference
\* that is malformed or cannot be loaded (unknown module, class missing from
\* the module, a name that resolves to no adapter class), resolving fails with
\* the adapter-load error; it never silently returns another adapter
C22_BrokenReferenceFails ==
    (Resolved /\ BrokenReference) =>
        call.res.outcome = "ImportError" /\ call.res.panel = "none"

\* What the claim makes of feature f for the call's instance: the override's
\* value when the override names f, the class's declared value otherwise
Effective(f) ==
    LET override == OverrideAbilities(conf, call.inst)
    IN  IF f \in DOMAIN override THEN override[f]
        ELSE ABILITIES(PanelClass(conf.backend))[f]

\* C23: the effective capability set of an adapter is its class-declared set
\* changed only by the explicit per-instance override: a declared operation
\* has the override's value when the override names it and the declared value
\* otherwise (an operation is refused exactly when that value is false), and
\* names the class does not declare never appear
C23_EffectiveAbilities ==
    (call.op \in Features /\ HasPanel(conf, call.inst)) =>
        /\ call.res.outcome = "NotImplementedError" <=> ~Effective(call.op)
        /\ DOMAIN abilities(conf, call.inst)
              = DOMAIN ABILITIES(PanelClass(conf.backend))
        /\ \A f \in DOMAIN OverrideAbilities(conf, call.inst) \ Features :
              ~is_feature_supported(conf, call.inst, f)

\* C23 happens: under an override that names an undeclared operation and
\* narrows delete_key, delete_key was refused
C23_Witness ==
    /\ conf.override = "withExport"
    /\ call.op = "delete_key"
    /\ call.inst = "A"
    /\ ABILITIES(PanelClass(conf.backend))["delete_key"]
    /\ call.res.outcome = "NotImplementedError"

\* C24: every capability that an adapter exposes as true is backed by an
\* implementation: for every built-in adapter and every per-instance
\* override, an operation whose effective capability is true reaches a
\* primitive that the backend handle has, and never fails for lack of one
C24_TrueMeansImplemented ==
    (/\ call.op \in Features
     /\ HasPanel(conf, call.inst)
     /\ is_feature_supported(conf, call.inst, call.op)) =>
        call.res.outcome # "AttributeError"

\* C25: edit_key called without a timeout stores the key with the backend's
\* default retention, not with an unlimited lifetime: the key expires when a
\* key written by the backend's own default set would expire
C25_DefaultRetention ==
    (Ok("edit_key") /\ call.timeout = NoTimeout /\ Backend(conf) # "dummy") =>
        LET by_default == BackendSet(Backend(conf), call.before, CallKey,
                                     call.value, DEFAULT_TIMEOUT)
        IN  /\ CallKey \in DOMAIN store
            /\ store[CallKey].ttl = by_default[CallKey].ttl

\* C26: no adapter operation retries: get_key, delete_key, edit_key and
\* flush_cache each issue exactly one backend call per invocation, and when
\* a backend call of an operation fails (a SCAN call inside the cursor loop
\* included), the operation makes no further backend call before it returns
\* or raises
C26_NoRetry ==
    (call.op \in Features
     /\ HasPanel(conf, call.inst)
     /\ is_feature_supported(conf, call.inst, call.op)) =>
        /\ call.op \in DOMAIN Primitive =>
              call.res.calls = <<Primitive[call.op]>>
        /\ (call.op = "query" /\ Remote) =>
              Len(call.res.calls) =
                 IF call.fault = "connect" THEN 0
                 ELSE IF FaultHit THEN FaultAt(call.fault)
                 ELSE ScansNeeded

\* C26 happens: the first SCAN call of a loop that needs several has failed
\* and no other call was made
C26_Witness ==
    /\ call.op = "query"
    /\ Remote
    /\ call.fault = "scan1"
    /\ ScansNeeded >= 2
    /\ call.res.error
    /\ Len(call.res.calls) = 1

\* A view has answered a request
Responded(view) == http.pc = "responded" /\ http.view = view

\* The physical key a request to a view names
RequestKey == make_key(conf, http.cache_name, http.key)

\* C27: a request from anyone but a staff member, to any of the four views
\* with any method and action, is answered with a redirect to the login
\* page, invokes no backend primitive and leaves every cache as it was
C27_NonStaffRedirected ==
    (http.pc = "responded" /\ ~IsStaff(http.user)) =>
        /\ http.response.status = 302
        /\ http.response.location = "login"
        /\ http.response.calls = <<>>
        /\ store = http.before

\* Nobody is logged in and key_detail is sent a delete for a stored key
\* that the adapter could delete: the key is still there
C27_Witness ==
    /\ Responded("key_detail")
    /\ http.user = "anonymous"
    /\ http.method = "POST"
    /\ http.action = "delete"
    /\ HasPanel(conf, http.cache_name)
    /\ is_feature_supported(conf, http.cache_name, "delete_key")
    /\ Live(store, RequestKey)
    /\ http.response.location = "login"


\* The capability each mutating form action needs
ActionCapability ==
    [flush |-> "flush_cache", delete |-> "delete_key", update |-> "edit_key",
     add |-> "edit_key"]

\* A staff member posted a mutating action to a cache whose adapter has the
\* action's capability switched off
DisabledAction ==
    /\ http.pc = "responded"
    /\ IsStaff(http.user)
    /\ http.method = "POST"
    /\ http.action \in DOMAIN ActionCapability
    /\ HasPanel(conf, http.cache_name)
    /\ ~is_feature_supported(conf, http.cache_name, ActionCapability[http.action])

\* C28: a POST with a mutating action whose capability is false changes
\* nothing in the cache, invokes no mutating primitive and does not
\* redirect: the page is rendered with status 200
C28_DisabledActionRenders ==
    DisabledAction =>
        /\ http.response.status = 200
        /\ store = http.before
        /\ \A i \in DOMAIN http.response.calls :
              http.response.calls[i] \notin {"set", "delete", "clear"}


\* The relational adapter's query has returned
DbDone == db.pc = "done"

\* What the query returns from one table state
DbResultOf(st) ==
    DbQuery(conf, call.inst, st, call.pattern, call.page, call.per_page)

\* C29: total_count and keys of the relational adapter's result describe
\* one table state, also with other callers' edit_key and delete_key
\* between the two statements, and the page has no more keys than
\* total_count leaves for it
C29_OneTableState ==
    DbDone =>
        /\ \E st \in {db.counted, db.selected} :
              /\ call.res.total_count = DbResultOf(st).total_count
              /\ call.res.keys = DbResultOf(st).keys
        /\ Len(call.res.keys) + StartIdx(call.page, call.per_page)
              <= IF call.res.total_count > StartIdx(call.page, call.per_page)
                 THEN call.res.total_count
                 ELSE StartIdx(call.page, call.per_page)


\* The number of entries the store of the call held
StoredBefore == Cardinality(DOMAIN call.before)

\* The call's query for another page of the unchanged data
PageOf(keyspace, page) ==
    query(conf, call.inst, call.before, keyspace, call.pattern, page,
          call.per_page, call.scan_count, "none")

\* The call's whole result, read off one page wide enough to hold it
WholeOf(keyspace) ==
    query(conf, call.inst, call.before, keyspace, call.pattern, 1,
          StoredBefore + 1, call.scan_count, "none").keys

\* ceil(N / p)
LastPage(N, p) == (N + p - 1) \div p

\* No element of seq occurs twice
NoDuplicates(seq) == \A i, j \in DOMAIN seq : seq[i] = seq[j] => i = j

\* C30: the pages of an enumerable adapter partition the result. With N
\* matches and per_page = p, page i is the slice [(i-1)p, ip) of the
\* filtered, sorted key list; pages 1..ceil(N/p) one after another are that
\* list, which holds every matching key once and in sorted order; every
\* page beyond is empty with total_count still N.
C30_PagesPartition ==
    (Ok("query") /\ IsEnumerable /\ ~call.res.error) =>
        \A keyspace \in KeyspaceOrders(conf, call.before) :
            LET whole == WholeOf(keyspace)
                N == Len(whole)
                p == call.per_page
            IN  /\ call.res.keys
                     = PySlice(whole, StartIdx(call.page, p), EndIdx(call.page, p))
                /\ PagesFrom(keyspace, 1, LastPage(N, p)) = whole
                /\ Ascending(whole)
                /\ NoDuplicates(whole)
                /\ \A beyond \in (LastPage(N, p) + 1)..(LastPage(N, p) + 2) :
                      /\ PageOf(keyspace, beyond).keys = <<>>
                      /\ PageOf(keyspace, beyond).total_count = N


\* Batch sizes to compare: one key per SCAN call up to more than the store
\* holds, and the default
BatchSizes == 1..(StoredBefore + 1) \cup {DefaultScanCount}

\* The call's query with another scan_count, the server walking its
\* keyspace in the order given
WithScanCount(keyspace, scan_count) ==
    query(conf, call.inst, call.before, keyspace, call.pattern, call.page,
          call.per_page, scan_count, "none")

\* C31: in both remote adapters the result of query does not depend on
\* scan_count: against the same data, walked by the server in the same
\* order, every scan_count >= 1 gives the keys and total_count that the
\* call returned
C31_ScanCountIrrelevant ==
    (Ok("query") /\ Remote /\ call.fault = "none") =>
        \A keyspace \in KeyspaceOrders(conf, call.before) :
            WithScanCount(keyspace, call.scan_count) = call.res =>
                \A scan_count \in BatchSizes :
                    LET other == WithScanCount(keyspace, scan_count)
                    IN  /\ other.outcome = "ok"
                        /\ other.keys = call.res.keys
                        /\ other.redis_keys = call.res.redis_keys
                        /\ other.total_count = call.res.total_count

\* C31 happens: a query that took one SCAN call per key returned two keys,
\* and the default batch size fetches them in a single call
C31_Witness ==
    /\ Ok("query")
    /\ Remote
    /\ call.fault = "none"
    /\ call.scan_count = 1
    /\ Len(call.res.calls) >= 2
    /\ Len(call.res.keys) = 2
    /\ \A keyspace \in KeyspaceOrders(conf, call.before) :
          Len(WithScanCount(keyspace, DefaultScanCount).calls) = 1


\* A staff member posted a form that the view must reject: key_add without
\* a key name, or key_add or a key_detail update with a timeout that is not
\* a number or is negative
InvalidForm ==
    /\ http.pc = "responded"
    /\ IsStaff(http.user)
    /\ http.method = "POST"
    /\ HasPanel(conf, http.cache_name)
    /\ \/ /\ http.view = "key_add"
          /\ http.key \in BlankKeyNames \/ http.timeout \in {<<"-", "1">>, <<"x">>}
       \/ /\ http.view = "key_detail"
          /\ http.action = "update"
          /\ http.timeout \in {<<"-", "1">>, <<"x">>}

\* C32: invalid form input causes no cache write: edit_key is not called
\* (no set reaches the backend), what each key of the cache holds is as
\* before, and the form is rendered instead of a redirect
C32_InvalidFormWritesNothing ==
    InvalidForm =>
        /\ \A i \in DOMAIN http.response.calls : http.response.calls[i] # "set"
        /\ \A pk \in DOMAIN http.before \cup DOMAIN store :
              /\ Live(store, pk) <=> Live(http.before, pk)
              /\ Live(store, pk) => store[pk] = http.before[pk]
        /\ http.response.status = 200


\* key_search has shown a staff member a page of a query
PageShown ==
    /\ Responded("key_search")
    /\ IsStaff(http.user)
    /\ http.response.status = 200
    /\ http.response.context.paginated

\* t = ceil(N / p)
IsCeiling(t, N, p) == t * p >= N /\ (t - 1) * p < N

\* C33: the range key_search shows matches the page: total_pages is
\* ceil(N/p), has_next holds exactly when page < total_pages, has_previous
\* exactly when page > 1, start_index = (page-1)*p + 1, end_index =
\* min(page*p, N), and end_index - start_index + 1 is the number of keys
\* listed
C33_RangeMatchesPage ==
    PageShown =>
        LET context == http.response.context
            N == context.total_keys
            p == http.per_page
            i == http.page
        IN  /\ IsCeiling(context.total_pages, N, p)
            /\ context.has_next <=> i < context.total_pages
            /\ context.has_previous <=> i > 1
            /\ context.start_index = (i - 1) * p + 1
            /\ context.end_index = min(i * p, N)
            /\ context.end_index - context.start_index + 1 = context.listed


\* The keys of query("*") on the store as it is, on one page wide enough
ListedNow(keyspace) ==
    query(conf, call.inst, store, keyspace, <<"*">>, 1,
          Cardinality(DOMAIN store) + 1, DefaultScanCount, "none").keys

\* C34: codec round trip. In every enumerable adapter, for every configured
\* prefix and version, decoding the physical key that the backend's key
\* transform makes of a logical key gives that key back, so a key just
\* written with edit_key is listed by query under its own name
C34_CodecRoundTrip ==
    (/\ Ok("edit_key")
     /\ IsEnumerable
     /\ is_feature_supported(conf, call.inst, "query")
     /\ Live(store, CallKey)) =>
        /\ UserKey(conf, call.inst, CallKey) = call.key
        /\ \A keyspace \in KeyspaceOrders(conf, store) :
              \E i \in DOMAIN ListedNow(keyspace) :
                  ListedNow(keyspace)[i] = call.key


\* The keys the call's query returned are those of query("*") on one page
\* wide enough
ListedAll ==
    /\ Ok("query")
    /\ IsEnumerable
    /\ ~call.res.error
    /\ call.pattern = <<"*">>
    /\ call.page = 1
    /\ call.per_page > Len(call.res.keys)

\* C35: listing and lookup agree. In every enumerable adapter every key that
\* query returns exists for get_key, and every key of the instance that
\* exists for get_key is among the keys of query("*")
C35_ListingAgreesWithLookup ==
    (Ok("query") /\ IsEnumerable /\ ~call.res.error) =>
        /\ \A i \in DOMAIN call.res.keys :
              get_key(conf, call.inst, store, call.res.keys[i]).exists
        /\ ListedAll =>
              \A k \in KeysOf(call.inst) :
                  get_key(conf, call.inst, store, k).exists =>
                      \E i \in DOMAIN call.res.keys : call.res.keys[i] = k


\* The physical keys stored through the instance itself
OwnPhysicalKeys(inst) == {make_key(conf, inst, k) : k \in KeysOf(inst)}

\* What query returned stems from entries stored through the calling
\* instance: with only those entries on the store the result is the same
ScopedResult(keyspace) ==
    LET own == [pk \in DOMAIN call.before \cap OwnPhysicalKeys(call.inst) |->
                   call.before[pk]]
        ownspace == SelectSeq(keyspace, LAMBDA pk : pk \in DOMAIN own)
    IN  query(conf, call.inst, own, ownspace, call.pattern, call.page,
              call.per_page, call.scan_count, "none")

\* C36: enumeration is scoped to the instance. A query on one instance
\* lists no key stored through another instance that shares the server or
\* table under another prefix or version: its keys and total_count are
\* those it returns when the other instance's entries are not there
C36_ScopedToInstance ==
    (Ok("query") /\ IsEnumerable /\ ~call.res.error) =>
        \A keyspace \in KeyspaceOrders(conf, call.before) :
            /\ ScopedResult(keyspace).keys = call.res.keys
            /\ ScopedResult(keyspace).total_count = call.res.total_count


\* C37: a Scan Result holds no logical key twice and total_count counts
\* each matching logical key once, in every enumerable adapter, also when
\* the backend holds the same logical key under several versions
C37_NoKeyTwice ==
    (Ok("query") /\ IsEnumerable /\ ~call.res.error) =>
        /\ NoDuplicates(call.res.keys)
        /\ \A keyspace \in KeyspaceOrders(conf, call.before) :
              LET whole == WholeOf(keyspace)
              IN  call.res.total_count
                     = Cardinality({whole[i] : i \in DOMAIN whole})


\* Page numbers below the first page
PagesBelowOne == {0, -1}

\* C38: out-of-range pages are harmless. In every enumerable adapter query
\* with page < 1 does not fail and returns no keys, with the total_count
\* that the pages from 1 on report
C38_PageBelowOneHarmless ==
    (Ok("query") /\ IsEnumerable /\ ~call.res.error) =>
        \A page \in PagesBelowOne :
            \A keyspace \in KeyspaceOrders(conf, call.before) :
                LET below == PageOf(keyspace, page)
                IN  /\ below.outcome = "ok"
                    /\ below.keys = <<>>
                    /\ below.total_count = call.res.total_count


\* C39: no view invokes a gated adapter operation whose capability is
\* false: whatever the cache's abilities, and whatever the request, the
\* unsupported-operation error never leaves a view
C39_NoUnsupportedOperation ==
    http.pc = "responded" => http.response.raised # "NotImplementedError"


\* key_add has answered a staff member's POST for a cache whose effective
\* add_key capability is false
AddDisabled ==
    /\ Responded("key_add")
    /\ IsStaff(http.user)
    /\ http.method = "POST"
    /\ HasPanel(conf, http.cache_name)
    /\ ~is_feature_supported(conf, http.cache_name, "add_key")

\* C40: key creation obeys the add_key capability: with add_key false, also
\* by an override that leaves edit_key true, a key_add request stores no
\* key
C40_AddKeyGatesCreation ==
    AddDisabled =>
        /\ \A i \in DOMAIN http.response.calls : http.response.calls[i] # "set"
        /\ store = http.before

=============================================================================
